---------------------------- MODULE Spec2Model ----------------------------
(***************************************************************************)
(* FailureArtifactBuffer (failure-artifacts.ts): a time-windowed buffer of *)
(* frames and step records that persist() redacts and writes as a bundle.  *)
(* Every awaited file operation of the source is one step of the model, so *)
(* the states between two steps are the points where a call is suspended   *)
(* (or where the process may stop).                                        *)
(***************************************************************************)
EXTENDS Integers, Sequences, FiniteSets, TLC

\* ------------------------------------------------------------------ bounds
MaxTick == 3        \* the clock takes the values 0, 500, ..., 500*MaxTick
MaxAdds == 3        \* addFrame calls of a run
MaxSteps == 1       \* recordStep calls of a run
MaxCalls == 2       \* persist calls of a run
MaxPersistTick == 1 \* as MaxTick, in the runs that follow persist step by step
MaxPersistAdds == 2 \* as MaxAdds, in the runs that follow persist step by step
MaxInterleaveAdds == 1 \* as MaxAdds, in the runs with overlapping persist calls
MaxElements == 2    \* elements of a snapshot handed to persist
MaxLogSteps == 2    \* recordStep calls in the runs that follow the step log
MaxCleanups == 2    \* cleanup calls of a run
MaxDefaultAdds == 1 \* as MaxAdds, in the runs over the constructor's options
MaxRedactCalls == 2     \* calls of redactSnapshotDefaults in a row

\* ------------------------------------------------------- program constants
MsPerSecond == 1000

\* ------------------------------------------------------------ JS values
Undefined == [kind |-> "undefined"]
Null == [kind |-> "null"]

\* JS truthiness of a payload: undefined and null are falsy, objects are truthy.
Truthy(v) == v.kind \notin {"undefined", "null"}

\* `${ts}`: the decimal rendering of a non-negative integer, digit by digit.
DigitChar(d) == <<"0", "1", "2", "3", "4", "5", "6", "7", "8", "9">>[d + 1]

RECURSIVE Digits(_)
Digits(n) == IF n < 10 THEN <<DigitChar(n)>>
             ELSE Digits(n \div 10) \o <<DigitChar(n % 10)>>

\* `frame_${ts}.${fmt}`
FrameFileName(ts, fmt) == <<"frame_">> \o Digits(ts) \o <<".", fmt>>

\* path.join(dir, name) and path.basename(p)
PathJoin(dir, name) == [dir |-> dir, name |-> name]
Basename(p) == p.name

\* this.framesDir = path.join(this.tempDir, 'frames')
FramesDir == "scratch/frames"

Formats == {"png", "jpeg"}

\* ---------------------------------------------------------------- state
VARIABLES
    now,        \* the value the injected clock timeNow() returns
    options,    \* this.options
    frames,     \* this.frames: sequence of FrameRecord
    steps,      \* this.steps
    persisted,  \* this.persisted
    scratch,    \* files of this.framesDir: file name -> bytes
    af,         \* the addFrame call in flight
    submitted,  \* capture timestamps of the frames addFrame has appended
    tempDir,    \* this.tempDir on disk, and the cleanup calls made so far
    call,       \* the persist calls: position and locals of each
    runDirs,    \* run directories that exist under outputDir
    outFrames,  \* files under <runDir>/frames: <<runDir, name>> -> bytes
    outJson,    \* JSON files of the run directories: <<runDir, name>> -> data
    outClip,    \* run directories that hold failure.mp4
    redaction   \* the objects redactSnapshotDefaults was given and has made

vars == <<now, options, frames, steps, persisted, scratch, af, submitted,
          tempDir, call, runDirs, outFrames, outJson, outClip, redaction>>

bufferVars == <<frames, steps, scratch, af, submitted, tempDir>>
diskVars == <<runDirs, outFrames, outJson, outClip>>

\* f with key k set to v (a file written or overwritten)
Put(f, k, v) == [x \in (DOMAIN f) \cup {k} |-> IF x = k THEN v ELSE f[x]]
\* f without the keys of ks (files unlinked)
Without(f, ks) == [x \in (DOMAIN f) \ ks |-> f[x]]

EmptyFiles == [x \in {} |-> 0]

\* ------------------------------------------------------------ construction
\* The options a run is constructed with: the retention window, whether a
\* redaction hook is configured, the redaction toggle and the clip options.
OptionChoices ==
    [bufferSeconds : {1},
     onBeforePersist : BOOLEAN,
     redactSnapshotValues : {TRUE},
     clip : [mode : {"off", "auto", "on"}, fps : {8}]]
    \cup [bufferSeconds : {1},
          onBeforePersist : {TRUE},
          redactSnapshotValues : {FALSE},
          clip : [mode : {"off"}, fps : {8}]]

IdleAdd == [pc |-> "idle", ts |-> 0, fileName |-> <<>>,
            filePath |-> PathJoin(FramesDir, <<>>), image |-> 0]

IdleCall ==
    [pc |-> "idle", ret |-> "idle", result |-> Undefined,
     reason |-> "", status |-> "failure",
     snapshot |-> Undefined, diagnostics |-> Undefined, metadata |-> Undefined,
     ts |-> 0, loop |-> <<>>, i |-> 1,
     json |-> [file |-> "", data |-> Undefined],
     snapshotPayload |-> Undefined, diagnosticsPayload |-> Undefined,
     framePaths |-> <<>>, dropFrames |-> FALSE,
     snapshotWritten |-> FALSE, diagnosticsWritten |-> FALSE,
     clipGenerated |-> FALSE,
     hook |-> [kind |-> "none", snapshot |-> Undefined, diagnostics |-> Undefined,
               framePaths |-> Undefined, dropFrames |-> FALSE],
     hookCalls |-> 0, probeCalls |-> 0, encoderCalls |-> 0,
     probe |-> "none", encoder |-> "none", clipInput |-> <<>>,
     generateCalls |-> 0, warnings |-> {},
     ctx |-> [runId |-> "", reason |-> "", status |-> "failure",
              snapshot |-> Undefined, diagnostics |-> Undefined,
              framePaths |-> <<>>, metadata |-> Undefined]]

Calls == 1..MaxCalls

\* No call of redactSnapshotDefaults on its own is followed: no object is
\* allocated.
NoRedaction == [cells |-> <<>>, payload |-> Undefined, results |-> <<>>]

InitGiven(optionChoices, redactionChoices) ==
    /\ now = 0
    /\ options \in optionChoices
    /\ redaction \in redactionChoices
    /\ frames = <<>>
    /\ steps = <<>>
    /\ persisted = FALSE
    /\ scratch = EmptyFiles
    /\ af = IdleAdd
    /\ submitted = <<>>
    /\ tempDir = [exists |-> TRUE, cleanups |-> 0, rejected |-> FALSE]
    /\ call = [c \in Calls |-> IdleCall]
    /\ runDirs = {}
    /\ outFrames = EmptyFiles
    /\ outJson = EmptyFiles
    /\ outClip = {}

InitWith(optionChoices) == InitGiven(optionChoices, {NoRedaction})

\* An addFrame call is suspended at its awaited scratch write (line 370).
AddInFlight == af.pc = "writeFile"

\* A persist call is between its first and its last statement.
Active(c) == call[c].pc \notin {"idle", "returned", "threw"}
NoCallActive == \A c \in Calls : ~Active(c)

\* -------------------------------------------------------------- the clock
\* The injected clock returns a later value. Once a persist call has read
\* the clock (line 409) it never reads it again, so the clock is left alone
\* until the call has ended.
Tick ==
    /\ \A c \in Calls : Active(c) => call[c].pc = "mkdirOut"
    /\ now' = now + 500
    /\ UNCHANGED <<options, redaction, persisted, call>>
    /\ UNCHANGED bufferVars
    /\ UNCHANGED diskVars

\* The injected clock returns any value, a lower one included: the next read
\* of timeNow() gives t.
ClockReturns(t) ==
    /\ t # now
    /\ \A c \in Calls : Active(c) => call[c].pc = "mkdirOut"
    /\ now' = t
    /\ UNCHANGED <<options, redaction, persisted, call>>
    /\ UNCHANGED bufferVars
    /\ UNCHANGED diskVars

\* --------------------------------------------------------------- recordStep
\* (mutant) recordStep putting the record at the front of this.steps.
RecordStepFront(action, stepId, url) ==
    /\ ~AddInFlight
    /\ NoCallActive
    /\ steps' = <<[ts |-> now, action |-> action, step_id |-> stepId,
                   step_index |-> Len(steps) + 1, url |-> url]>> \o steps
    /\ UNCHANGED <<now, options, redaction, persisted, call, frames, scratch, af, submitted,
                 tempDir>>
    /\ UNCHANGED diskVars

\* Lines 356-364. The caller numbers its steps: stepIndex is the ordinal of
\* the call.
RecordStep(action, stepId, url) ==
    /\ ~AddInFlight
    /\ NoCallActive
    /\ steps' = Append(steps, [ts |-> now, action |-> action, step_id |-> stepId,
                               step_index |-> Len(steps) + 1, url |-> url])
    /\ UNCHANGED <<now, options, redaction, persisted, call, frames, scratch, af, submitted,
                 tempDir>>
    /\ UNCHANGED diskVars

\* ----------------------------------------------------------------- addFrame
\* Lines 367-370: read the clock, name the file, start the scratch write.
AddFrameCall(image, fmt) ==
    /\ ~AddInFlight
    /\ NoCallActive
    /\ LET ts == now
           fileName == FrameFileName(ts, fmt)
       IN af' = [pc |-> "writeFile", ts |-> ts, fileName |-> fileName,
                 filePath |-> PathJoin(FramesDir, fileName), image |-> image]
    /\ UNCHANGED <<now, options, redaction, persisted, call, frames, steps, scratch, submitted,
                 tempDir>>
    /\ UNCHANGED diskVars

\* (mutant) prune() with a strict comparison: a frame at the cutoff is evicted.
PruneKeepStrict(fs, t) ==
    LET cutoff == t - options.bufferSeconds * MsPerSecond
    IN SelectSeq(fs, LAMBDA frame : frame.ts > cutoff)

\* prune(): the frames kept for the clock value t, in their order.
PruneKeep(fs, t) ==
    LET cutoff == t - options.bufferSeconds * MsPerSecond
    IN SelectSeq(fs, LAMBDA frame : frame.ts >= cutoff)

\* prune(): the scratch files unlinked for the clock value t.
PruneUnlinked(fs, t) ==
    LET cutoff == t - options.bufferSeconds * MsPerSecond
    IN {fs[k].filePath.name : k \in {j \in 1..Len(fs) : ~(fs[j].ts >= cutoff)}}

\* What a failed write leaves at the path when it leaves a file there.
Truncated == 0 - 1

\* (mutant) addFrame catching the error of the scratch write and going on to
\* prune.
AddFrameRejectPruned(leftover) ==
    /\ af.pc = "writeFile"
    /\ af' = [af EXCEPT !.pc = "rejected"]
    /\ frames' = PruneKeep(frames, now)
    /\ scratch' = Without(IF leftover THEN Put(scratch, af.filePath.name, Truncated)
                          ELSE scratch,
                          PruneUnlinked(frames, now))
    /\ UNCHANGED <<now, options, redaction, persisted, call, steps, submitted, tempDir>>
    /\ UNCHANGED diskVars

\* Line 370: the scratch write fails; the rejection leaves addFrame, lines
\* 371-372 do not run. leftover: the failed write has created or truncated the
\* file at the path, or has left the directory as it was.
AddFrameReject(leftover) ==
    /\ af.pc = "writeFile"
    /\ af' = [af EXCEPT !.pc = "rejected"]
    /\ scratch' = IF leftover THEN Put(scratch, af.filePath.name, Truncated)
                  ELSE scratch
    /\ UNCHANGED <<now, options, redaction, persisted, call, frames, steps, submitted, tempDir>>
    /\ UNCHANGED diskVars

\* Lines 370-372: the scratch write has completed; append the record, prune.
AddFrameResume ==
    /\ af.pc = "writeFile"
    /\ tempDir.exists
    /\ LET pushed == Append(frames, [ts |-> af.ts, fileName |-> af.fileName,
                                     filePath |-> af.filePath])
           written == Put(scratch, af.filePath.name, af.image)
       IN /\ frames' = PruneKeep(pushed, now)
          /\ scratch' = Without(written, PruneUnlinked(pushed, now))
    /\ submitted' = Append(submitted, af.ts)
    /\ af' = IdleAdd
    /\ UNCHANGED <<now, options, redaction, persisted, call, steps, tempDir>>
    /\ UNCHANGED diskVars

\* (mutant) prune() without the try block of lines 386-390: the error of
\* unlinkSync leaves prune and addFrame, this.frames not yet reassigned.
AddFrameUnlinkThrows(failed) ==
    /\ af.pc = "writeFile"
    /\ tempDir.exists
    /\ LET pushed == Append(frames, [ts |-> af.ts, fileName |-> af.fileName,
                                     filePath |-> af.filePath])
           written == Put(scratch, af.filePath.name, af.image)
       IN /\ failed # {}
          /\ failed \subseteq PruneUnlinked(pushed, now)
          /\ frames' = pushed
          /\ scratch' = Without(written, PruneUnlinked(pushed, now) \ failed)
    /\ af' = [af EXCEPT !.pc = "rejected"]
    /\ UNCHANGED <<now, options, redaction, persisted, call, steps, submitted, tempDir>>
    /\ UNCHANGED diskVars

\* Lines 370-372 with unlinkSync throwing for the files in failed (lines
\* 386-390): the error is caught and ignored, the file stays, the record goes.
AddFrameResumeUnlinkFails(failed) ==
    /\ af.pc = "writeFile"
    /\ tempDir.exists
    /\ LET pushed == Append(frames, [ts |-> af.ts, fileName |-> af.fileName,
                                     filePath |-> af.filePath])
           written == Put(scratch, af.filePath.name, af.image)
       IN /\ failed # {}
          /\ failed \subseteq PruneUnlinked(pushed, now)
          /\ frames' = PruneKeep(pushed, now)
          /\ scratch' = Without(written, PruneUnlinked(pushed, now) \ failed)
    /\ submitted' = Append(submitted, af.ts)
    /\ af' = IdleAdd
    /\ UNCHANGED <<now, options, redaction, persisted, call, steps, tempDir>>
    /\ UNCHANGED diskVars

\* ------------------------------------------------------------------ cleanup
\* (mutant) fs.promises.rm without force: a missing path is an error.
RmResolvesIfPresent(exists, force) == exists

\* fs.promises.rm(path, {recursive: true, force}): with force a path that does
\* not exist is no error.
RmResolves(exists, force) == exists \/ force

\* (mutant) cleanup removing the output of persist along with the scratch
\* directory.
CleanupRemovesRunDirs ==
    /\ ~AddInFlight
    /\ NoCallActive
    /\ tempDir.cleanups < MaxCleanups
    /\ tempDir' = [tempDir EXCEPT !.exists = FALSE, !.cleanups = @ + 1]
    /\ scratch' = EmptyFiles
    /\ runDirs' = {}
    /\ outFrames' = EmptyFiles
    /\ outJson' = EmptyFiles
    /\ outClip' = {}
    /\ UNCHANGED <<now, options, redaction, persisted, call, frames, steps, af, submitted>>

\* Lines 535-537: this.tempDir and all that is in it are removed; this.frames
\* and the other fields stay as they are.
Cleanup ==
    /\ ~AddInFlight
    /\ NoCallActive
    /\ tempDir.cleanups < MaxCleanups
    /\ IF RmResolves(tempDir.exists, TRUE)
       THEN /\ tempDir' = [tempDir EXCEPT !.exists = FALSE, !.cleanups = @ + 1]
            /\ scratch' = EmptyFiles
       ELSE /\ tempDir' = [tempDir EXCEPT !.cleanups = @ + 1, !.rejected = TRUE]
            /\ UNCHANGED scratch
    /\ UNCHANGED <<now, options, redaction, persisted, call, frames, steps, af, submitted>>
    /\ UNCHANGED diskVars

\* ------------------------------------------------------- default redaction
Str(s) == [kind |-> "string", v |-> s]
Num(n) == [kind |-> "number", v |-> n]
Bool(b) == [kind |-> "boolean", v |-> b]
Arr(items) == [kind |-> "array", items |-> items]

\* String.prototype.toLowerCase, character by character
LowerChar(ch) ==
    CASE ch = "A" -> "a" [] ch = "D" -> "d" [] ch = "E" -> "e" [] ch = "I" -> "i"
      [] ch = "L" -> "l" [] ch = "M" -> "m" [] ch = "O" -> "o" [] ch = "P" -> "p"
      [] ch = "R" -> "r" [] ch = "S" -> "s" [] ch = "T" -> "t" [] ch = "W" -> "w"
      [] ch = "X" -> "x" [] OTHER -> ch

ToLowerCase(str) == [k \in 1..Len(str) |-> LowerChar(str[k])]

Password == <<"p", "a", "s", "s", "w", "o", "r", "d">>
Email == <<"e", "m", "a", "i", "l">>
Tel == <<"t", "e", "l">>
SensitiveInputTypes == {Password, Email, Tel}

\* (mutant) the element test of line 308 on the input type as written, without
\* toLowerCase.
RedactElementCaseSensitive(el) ==
    IF "kind" \in DOMAIN el THEN el
    ELSE LET inputType == IF "input_type" \in DOMAIN el THEN el.input_type ELSE <<>>
         IN IF inputType \in SensitiveInputTypes /\ "value" \in DOMAIN el
            THEN [f \in (DOMAIN el) \cup {"value", "value_redacted"} |->
                    IF f = "value" THEN Null
                    ELSE IF f = "value_redacted" THEN Bool(TRUE)
                    ELSE el[f]]
            ELSE el

\* Lines 305-312: one element of the elements array. An element is a record
\* whose DOMAIN is the set of its own properties; a non-object element (null)
\* is returned as it is.
RedactElement(el) ==
    IF "kind" \in DOMAIN el THEN el
    ELSE LET inputType == ToLowerCase(IF "input_type" \in DOMAIN el
                                      THEN el.input_type ELSE <<>>)
         IN IF inputType \in SensitiveInputTypes /\ "value" \in DOMAIN el
            THEN [f \in (DOMAIN el) \cup {"value", "value_redacted"} |->
                    IF f = "value" THEN Null
                    ELSE IF f = "value_redacted" THEN Bool(TRUE)
                    ELSE el[f]]
            ELSE el

\* Lines 297-314. A snapshot object is [kind |-> "object", url, elements].
RedactSnapshotDefaults(payload) ==
    IF ~Truthy(payload) \/ payload.kind # "object" THEN payload
    ELSE IF payload.elements.kind # "array" THEN payload
    ELSE [payload EXCEPT !.elements =
            Arr([k \in 1..Len(payload.elements.items) |->
                    RedactElement(payload.elements.items[k])])]

\* ------------------------------------------- default redaction, by reference
\* JS objects have an identity: a value is a primitive or a reference to a
\* cell, and cells is the sequence of the objects allocated so far. A snapshot
\* object is a cell [kind |-> "object", url, elements], an array a cell
\* [kind |-> "array", items], an element a cell holding its own properties.
Ref(at) == [kind |-> "ref", at |-> at]

IsElementObject(el) == "kind" \notin DOMAIN el

\* The objects of the snapshot value a caller builds: the snapshot, then its
\* elements array, then the element objects in their order.
Allocate(snapshot) ==
    IF snapshot.kind # "object"
    THEN [cells |-> <<>>, payload |-> snapshot, results |-> <<>>]
    ELSE IF snapshot.elements.kind # "array"
    THEN [cells |-> <<snapshot>>, payload |-> Ref(1), results |-> <<>>]
    ELSE LET items == snapshot.elements.items
             at(k) == 2 + Cardinality({j \in 1..k : IsElementObject(items[j])})
         IN [cells |-> <<[snapshot EXCEPT !.elements = Ref(2)],
                         Arr([k \in 1..Len(items) |->
                                IF IsElementObject(items[k]) THEN Ref(at(k))
                                ELSE items[k]])>>
                       \o SelectSeq(items, IsElementObject),
             payload |-> Ref(1), results |-> <<>>]

\* The value a reference stands for, read through cells.
DerefElement(cells, v) == IF v.kind = "ref" THEN cells[v.at] ELSE v

DerefArray(cells, v) ==
    IF v.kind = "ref"
    THEN Arr([k \in 1..Len(cells[v.at].items) |->
                DerefElement(cells, cells[v.at].items[k])])
    ELSE v

Deref(cells, v) ==
    IF v.kind = "ref"
    THEN [cells[v.at] EXCEPT !.elements = DerefArray(cells, @)]
    ELSE v

\* Line 308: the element is one whose value is replaced.
ElementIsRedacted(el) ==
    /\ ToLowerCase(IF "input_type" \in DOMAIN el THEN el.input_type ELSE <<>>)
           \in SensitiveInputTypes
    /\ "value" \in DOMAIN el

\* Lines 298-304: the payloads returned as they are: what is no object, and
\* an object whose elements property is no array.
ReturnedAsIs(cells, payload) ==
    IF payload.kind # "ref" THEN TRUE
    ELSE cells[payload.at].elements.kind # "ref"

\* The indices of the items of the array cell arr that are replaced.
RedactedItems(cells, arr) ==
    SelectSeq([k \in 1..Len(arr.items) |-> k],
              LAMBDA k : IF arr.items[k].kind = "ref"
                         THEN ElementIsRedacted(cells[arr.items[k].at])
                         ELSE FALSE)

\* (mutant) line 309 assigning to the element it was given: el.value = null;
\* el.value_redacted = true; return el.
RedactInPlace(cells, payload) ==
    IF ReturnedAsIs(cells, payload) THEN [cells |-> cells, result |-> payload]
    ELSE LET obj == cells[payload.at]
             arr == cells[obj.elements.at]
             hits == RedactedItems(cells, arr)
             targets == {arr.items[hits[h]].at : h \in 1..Len(hits)}
             n == Len(cells)
         IN [cells |-> [i \in 1..n |-> IF i \in targets
                                        THEN RedactElement(cells[i])
                                        ELSE cells[i]]
                       \o <<arr, [obj EXCEPT !.elements = Ref(n + 1)]>>,
             result |-> Ref(n + 2)]

\* Lines 297-314 on objects: elements.map makes a new array (line 305), each
\* replaced element is a new object { ...el, value: null, value_redacted: true }
\* (line 309), every other item is the item it was given (lines 306, 311), and
\* the snapshot returned is a new object { ...payload, elements } (line 313).
RedactByReference(cells, payload) ==
    IF ReturnedAsIs(cells, payload) THEN [cells |-> cells, result |-> payload]
    ELSE LET obj == cells[payload.at]
             arr == cells[obj.elements.at]
             hits == RedactedItems(cells, arr)
             n == Len(cells)
             made(k) == n + (CHOOSE h \in 1..Len(hits) : hits[h] = k)
             isHit(k) == \E h \in 1..Len(hits) : hits[h] = k
         IN [cells |-> cells
                       \o [h \in 1..Len(hits) |->
                              RedactElement(cells[arr.items[hits[h]].at])]
                       \o <<Arr([k \in 1..Len(arr.items) |->
                                   IF isHit(k) THEN Ref(made(k)) ELSE arr.items[k]]),
                            [obj EXCEPT !.elements = Ref(n + Len(hits) + 1)]>>,
             result |-> Ref(n + Len(hits) + 2)]

\* redactSnapshotDefaults is called: first on the payload given, then on what
\* the call before returned.
RedactCall ==
    /\ Len(redaction.results) < MaxRedactCalls
    /\ LET given == IF redaction.results = <<>> THEN redaction.payload
                    ELSE redaction.results[Len(redaction.results)]
           out == RedactByReference(redaction.cells, given)
       IN redaction' = [redaction EXCEPT !.cells = out.cells,
                                         !.results = Append(@, out.result)]
    /\ UNCHANGED <<now, options, persisted, call>>
    /\ UNCHANGED bufferVars
    /\ UNCHANGED diskVars

\* ------------------------------------------------------------ file system
RunId == "run-1"

\* A run id of another buffer instance that names the same directory entry
\* with a leading "./", and one that differs in its name.
DotRunId == "./run-1"
OtherRunId == "run-2"

\* The segments between "/" of a run id (of the run ids above: a table).
PathSegments(runId) == IF runId = DotRunId THEN <<".", RunId>> ELSE <<runId>>

\* path.join normalises its result: a "." segment is dropped.
PathNormalize(segments) == SelectSeq(segments, LAMBDA seg : seg # ".")

\* (mutant) the run directory named by a fixed prefix and the timestamp.
RunDirNameWithoutId(runId, ts) == <<RunId, "-">> \o Digits(ts)

\* Line 410: path.join(outDir, `${this.runId}-${ts}`), as the name of the
\* entry of outDir: the run id's last segment, "-", the timestamp.
RunDirNameOf(runId, ts) ==
    LET segments == PathNormalize(PathSegments(runId))
    IN <<segments[Len(segments)], "-">> \o Digits(ts)

\* Line 410 for the buffer under study, whose run id is a plain name.
RunDirName(ts) == <<RunId, "-">> \o Digits(ts)

\* `${filePath}.tmp`
TmpName(file) == <<file, ".tmp">>
FinalName(file) == <<file>>

\* Directories outside the buffer that a hook may name: every path under
\* RedactedDir exists (the hook wrote a replacement there), none under
\* MissingDir does.
RedactedDir == "hook/redacted"
MissingDir == "hook/missing"

\* fs.existsSync(p)
ExistsSync(p) ==
    IF p.dir = FramesDir THEN p.name \in DOMAIN scratch ELSE p.dir = RedactedDir

\* the bytes copyFile reads from p
FileBytes(p) == IF p.dir = FramesDir THEN scratch[p.name] ELSE 0

\* ------------------------------------------------------------------ persist
ThisCall(c, rec) == [call EXCEPT ![c] = rec]

\* writeJsonAtomic(file, data) is called: JSON.stringify(data) is evaluated and
\* the write of the temporary file is started (line 196).
BeginWriteJson(rec, file, data, ret) ==
    [rec EXCEPT !.pc = "writeTmp", !.ret = ret,
                !.json = [file |-> file, data |-> data]]

\* (mutant) persist without the persisted check of lines 403-405.
PersistCallUnchecked(c, reason, status, snapshot, diagnostics, metadata) ==
    /\ call[c].pc = "idle"
    /\ IF c = 1 THEN TRUE ELSE call[c - 1].pc # "idle"
    /\ ~AddInFlight
    /\ call' = ThisCall(c, [IdleCall EXCEPT !.pc = "mkdirOut", !.reason = reason,
                                !.status = status,
                                !.snapshot = snapshot, !.diagnostics = diagnostics,
                                !.metadata = metadata])
    /\ UNCHANGED <<now, options, redaction, persisted>>
    /\ UNCHANGED bufferVars
    /\ UNCHANGED diskVars

\* (mutant) persist setting the persisted flag when it starts, before any
\* file is written.
PersistCallMarksPersisted(c, reason, status, snapshot, diagnostics, metadata) ==
    /\ call[c].pc = "idle"
    /\ IF c = 1 THEN TRUE ELSE call[c - 1].pc # "idle"
    /\ ~AddInFlight
    /\ LET rec == [IdleCall EXCEPT !.reason = reason,
                                   !.status = status, !.snapshot = snapshot,
                                   !.diagnostics = diagnostics,
                                   !.metadata = metadata]
       IN IF persisted
          THEN call' = ThisCall(c, [rec EXCEPT !.pc = "returned", !.result = Null])
          ELSE call' = ThisCall(c, [rec EXCEPT !.pc = "mkdirOut"])
    /\ persisted' = TRUE
    /\ UNCHANGED <<now, options, redaction>>
    /\ UNCHANGED bufferVars
    /\ UNCHANGED diskVars

\* Lines 403-408: the persisted check, then the first awaited operation.
PersistCall(c, reason, status, snapshot, diagnostics, metadata) ==
    /\ call[c].pc = "idle"
    /\ IF c = 1 THEN TRUE ELSE call[c - 1].pc # "idle"
    /\ ~AddInFlight
    /\ LET rec == [IdleCall EXCEPT !.reason = reason,
                                   !.status = status, !.snapshot = snapshot,
                                   !.diagnostics = diagnostics,
                                   !.metadata = metadata]
       IN IF persisted
          THEN call' = ThisCall(c, [rec EXCEPT !.pc = "returned", !.result = Null])
          ELSE call' = ThisCall(c, [rec EXCEPT !.pc = "mkdirOut"])
    /\ UNCHANGED <<now, options, redaction, persisted>>
    /\ UNCHANGED bufferVars
    /\ UNCHANGED diskVars

\* Lines 409-412: outDir exists; read the clock, name the run directory.
PersistMkdirOut(c) ==
    /\ call[c].pc = "mkdirOut"
    /\ call' = ThisCall(c, [call[c] EXCEPT !.pc = "mkdirFrames", !.ts = now])
    /\ UNCHANGED <<now, options, redaction, persisted>>
    /\ UNCHANGED bufferVars
    /\ UNCHANGED diskVars

\* Lines 412-414: <runDir>/frames exists; the loop over this.frames starts.
PersistMkdirFrames(c) ==
    /\ call[c].pc = "mkdirFrames"
    /\ runDirs' = runDirs \cup {RunDirName(call[c].ts)}
    /\ call' = ThisCall(c, [call[c] EXCEPT !.pc = "copyFrames", !.loop = frames,
                                           !.i = 1])
    /\ UNCHANGED <<now, options, redaction, persisted, outFrames, outJson, outClip>>
    /\ UNCHANGED bufferVars

\* (mutant) the first loop testing fs.existsSync as the second loop does: a
\* frame whose scratch file is gone is skipped.
PersistCopyFramesSkipMissing(c) ==
    /\ call[c].pc = "copyFrames"
    /\ LET rec == call[c]
           runDir == RunDirName(rec.ts)
       IN IF rec.i <= Len(rec.loop)
          THEN LET frame == rec.loop[rec.i]
               IN /\ outFrames' =
                        IF ExistsSync(frame.filePath)
                        THEN Put(outFrames, <<runDir, frame.fileName>>,
                                 FileBytes(frame.filePath))
                        ELSE outFrames
                  /\ call' = ThisCall(c, [rec EXCEPT !.i = rec.i + 1])
          ELSE /\ call' = ThisCall(c, BeginWriteJson(rec, "steps.json", Arr(steps),
                                                     "redact"))
               /\ UNCHANGED outFrames
    /\ UNCHANGED <<now, options, redaction, persisted, runDirs, outJson, outClip>>
    /\ UNCHANGED bufferVars

\* Lines 414-418: one copyFile of the first loop, or, the loop being over, the
\* call of writeJsonAtomic for steps.json.
PersistCopyFrames(c) ==
    /\ call[c].pc = "copyFrames"
    /\ LET rec == call[c]
           runDir == RunDirName(rec.ts)
       IN IF rec.i <= Len(rec.loop)
          THEN LET frame == rec.loop[rec.i]
               IN IF ExistsSync(frame.filePath)
                  THEN /\ outFrames' = Put(outFrames, <<runDir, frame.fileName>>,
                                           FileBytes(frame.filePath))
                       /\ call' = ThisCall(c, [rec EXCEPT !.i = rec.i + 1])
                  ELSE /\ call' = ThisCall(c, [rec EXCEPT !.pc = "threw"])
                       /\ UNCHANGED outFrames
          ELSE /\ call' = ThisCall(c, BeginWriteJson(rec, "steps.json", Arr(steps),
                                                     "redact"))
               /\ UNCHANGED outFrames
    /\ UNCHANGED <<now, options, redaction, persisted, runDirs, outJson, outClip>>
    /\ UNCHANGED bufferVars

\* The content of a file whose write has begun and has not completed.
Partial == [kind |-> "partial"]

\* (mutant) writeJsonAtomic writing to filePath itself: the write in progress
\* is at the final path.
WriteJsonInPlaceBegins(c) ==
    /\ call[c].pc = "writeTmp"
    /\ LET rec == call[c]
           final == <<RunDirName(rec.ts), FinalName(rec.json.file)>>
       IN /\ IF final \in DOMAIN outJson THEN outJson[final] # Partial ELSE TRUE
          /\ outJson' = Put(outJson, final, Partial)
    /\ UNCHANGED <<now, options, redaction, persisted, call, runDirs, outFrames, outClip>>
    /\ UNCHANGED bufferVars

\* writeJsonAtomic, line 196, while fs.promises.writeFile is at work: the
\* temporary file exists and holds a part of the data. Nothing but a crash (or
\* another call) sees this state.
WriteJsonTmpBegins(c) ==
    /\ call[c].pc = "writeTmp"
    /\ LET rec == call[c]
           tmp == <<RunDirName(rec.ts), TmpName(rec.json.file)>>
       IN /\ IF tmp \in DOMAIN outJson THEN outJson[tmp] # Partial ELSE TRUE
          /\ outJson' = Put(outJson, tmp, Partial)
    /\ UNCHANGED <<now, options, redaction, persisted, call, runDirs, outFrames, outClip>>
    /\ UNCHANGED bufferVars

\* writeJsonAtomic, line 196: the temporary file holds the data.
WriteJsonTmp(c) ==
    /\ call[c].pc = "writeTmp"
    /\ LET rec == call[c]
       IN /\ outJson' = Put(outJson, <<RunDirName(rec.ts), TmpName(rec.json.file)>>,
                            rec.json.data)
          /\ call' = ThisCall(c, [rec EXCEPT !.pc = "rename"])
    /\ UNCHANGED <<now, options, redaction, persisted, runDirs, outFrames, outClip>>
    /\ UNCHANGED bufferVars

\* writeJsonAtomic, line 196, failing: fs.promises.writeFile rejects (the disk
\* is full, the directory is gone), with or without a part of the temporary
\* file left behind; nothing in writeJsonAtomic or persist catches it, so
\* persist throws.
WriteJsonTmpRejects(c, leftover) ==
    /\ call[c].pc = "writeTmp"
    /\ LET rec == call[c]
           tmp == <<RunDirName(rec.ts), TmpName(rec.json.file)>>
       IN /\ outJson' = IF leftover THEN Put(outJson, tmp, Partial) ELSE outJson
          /\ call' = ThisCall(c, [rec EXCEPT !.pc = "threw"])
    /\ UNCHANGED <<now, options, redaction, persisted, runDirs, outFrames, outClip>>
    /\ UNCHANGED bufferVars

\* writeJsonAtomic, line 197: the temporary file is renamed into place; the
\* caller goes on (lines 468 and 474 set the written flags). The rename of a
\* temporary file that is no longer there (an overlapping call renamed it)
\* rejects, and persist throws.
WriteJsonRename(c) ==
    /\ call[c].pc = "rename"
    /\ LET rec == call[c]
           tmp == <<RunDirName(rec.ts), TmpName(rec.json.file)>>
           final == <<RunDirName(rec.ts), FinalName(rec.json.file)>>
       IN IF tmp \in DOMAIN outJson
          THEN /\ outJson' = Without(Put(outJson, final, outJson[tmp]), {tmp})
               /\ call' = ThisCall(c,
                    [rec EXCEPT !.pc = rec.ret,
                        !.snapshotWritten = @ \/ rec.json.file = "snapshot.json",
                        !.diagnosticsWritten = @ \/ rec.json.file = "diagnostics.json"])
          ELSE /\ call' = ThisCall(c, [rec EXCEPT !.pc = "threw"])
               /\ UNCHANGED outJson
    /\ UNCHANGED <<now, options, redaction, persisted, runDirs, outFrames, outClip>>
    /\ UNCHANGED bufferVars

\* What one invocation of options.onBeforePersist does: it throws, it returns
\* no object (undefined), or it returns a RedactionResult with any subset of
\* its four fields.
HookThrows == [kind |-> "throw", snapshot |-> Undefined, diagnostics |-> Undefined,
               framePaths |-> Undefined, dropFrames |-> FALSE]
HookReturnsUndefined == [HookThrows EXCEPT !.kind = "undefined"]
HookReturnsNull == [HookThrows EXCEPT !.kind = "null"]
HookResult(snapshot, diagnostics, framePaths, dropFrames) ==
    [kind |-> "result", snapshot |-> snapshot, diagnostics |-> diagnostics,
     framePaths |-> framePaths, dropFrames |-> dropFrames]

\* (mutant) the hook is handed the caller's snapshot as it came in.
PreHookSnapshotRaw(snapshot) == snapshot

\* (mutant) the default heuristic applied whatever the toggle says.
PreHookSnapshotToggleIgnored(snapshot) ==
    IF Truthy(snapshot) THEN RedactSnapshotDefaults(snapshot) ELSE snapshot

\* Lines 420-427: the payloads and the frame paths before the hook runs.
PreHookSnapshot(snapshot) ==
    IF Truthy(snapshot) /\ options.redactSnapshotValues
    THEN RedactSnapshotDefaults(snapshot)
    ELSE snapshot

FramePathsOf(fs) == [k \in 1..Len(fs) |-> fs[k].filePath]

\* Lines 431-439: the RedactionContext handed to options.onBeforePersist.
EmptyObject == [kind |-> "object"]

RedactionContext(rec) ==
    [runId |-> RunId, reason |-> rec.reason, status |-> rec.status,
     snapshot |-> PreHookSnapshot(rec.snapshot),
     diagnostics |-> rec.diagnostics,
     framePaths |-> FramePathsOf(frames),
     metadata |-> IF rec.metadata \in {Undefined, Null}
                  THEN EmptyObject ELSE rec.metadata]

\* (mutant) line 440 testing the hook's snapshot for truthiness: a hook that
\* returns snapshot: null leaves the caller's snapshot in place.
AfterHookSnapshotIfTruthy(pre, outcome) ==
    IF outcome.kind = "result" /\ Truthy(outcome.snapshot)
    THEN outcome.snapshot ELSE pre

\* Lines 440-452: the locals after the hook's outcome has been applied.
AfterHookSnapshot(pre, outcome) ==
    IF outcome.kind = "result" /\ outcome.snapshot # Undefined
    THEN outcome.snapshot ELSE pre

AfterHookDiagnostics(pre, outcome) ==
    IF outcome.kind = "result" /\ outcome.diagnostics # Undefined
    THEN outcome.diagnostics ELSE pre

\* (mutant) line 446 testing the returned list for its length: an empty list
\* leaves the buffer's paths in place.
AfterHookFramePathsNonEmpty(pre, outcome) ==
    IF outcome.kind = "result" /\ Truthy(outcome.framePaths)
       /\ outcome.framePaths.items # <<>>
    THEN outcome.framePaths.items ELSE pre

AfterHookFramePaths(pre, outcome) ==
    IF outcome.kind = "result" /\ Truthy(outcome.framePaths)
    THEN outcome.framePaths.items ELSE pre

\* (mutant) a hook that throws is not taken as a request to drop.
AfterHookDropFramesOnRequestOnly(outcome) ==
    outcome.kind = "result" /\ outcome.dropFrames

\* (mutant) the result read with optional chaining: a hook that returns no
\* object changes nothing and drops nothing.
AfterHookDropFramesOnThrowOnly(outcome) ==
    IF outcome.kind = "result" THEN outcome.dropFrames ELSE outcome.kind = "throw"

\* Lines 440-452: result.snapshot is read first; of undefined or null the read
\* throws a TypeError inside the try block, as a hook that throws does.
AfterHookDropFrames(outcome) ==
    IF outcome.kind = "result" THEN outcome.dropFrames ELSE TRUE

\* (mutant) lines 429-453 without the try block: an error of the hook ends
\* persist.
PersistRedactUncaught(c, outcome) ==
    /\ call[c].pc = "redact"
    /\ LET rec == call[c]
       IN IF options.onBeforePersist
          THEN call' = ThisCall(c,
                 [rec EXCEPT !.pc = IF outcome.kind = "result"
                                     THEN "copySurvivors" ELSE "threw",
                     !.i = 1, !.hook = outcome, !.hookCalls = @ + 1,
                     !.ctx = RedactionContext(rec),
                     !.snapshotPayload = PreHookSnapshot(rec.snapshot),
                     !.diagnosticsPayload = rec.diagnostics,
                     !.framePaths = FramePathsOf(frames),
                     !.dropFrames = outcome.dropFrames])
          ELSE call' = ThisCall(c,
                 [rec EXCEPT !.pc = "copySurvivors", !.i = 1,
                     !.snapshotPayload = PreHookSnapshot(rec.snapshot),
                     !.diagnosticsPayload = rec.diagnostics,
                     !.framePaths = FramePathsOf(frames),
                     !.dropFrames = FALSE])
    /\ UNCHANGED <<now, options, redaction, persisted>>
    /\ UNCHANGED bufferVars
    /\ UNCHANGED diskVars

\* Lines 420-455: default redaction, the hook, then the second loop starts.
\* outcome is what the hook does when it is invoked.
PersistRedact(c, outcome) ==
    /\ call[c].pc = "redact"
    /\ LET rec == call[c]
           snapshotPayload == PreHookSnapshot(rec.snapshot)
           diagnosticsPayload == rec.diagnostics
           framePaths == FramePathsOf(frames)
       IN IF options.onBeforePersist
          THEN call' = ThisCall(c,
                 [rec EXCEPT !.pc = "copySurvivors", !.i = 1,
                     !.hook = outcome, !.hookCalls = @ + 1,
                     !.ctx = RedactionContext(rec),
                     !.snapshotPayload = AfterHookSnapshot(snapshotPayload, outcome),
                     !.diagnosticsPayload =
                         AfterHookDiagnostics(diagnosticsPayload, outcome),
                     !.framePaths = AfterHookFramePaths(framePaths, outcome),
                     !.dropFrames = AfterHookDropFrames(outcome)])
          ELSE call' = ThisCall(c,
                 [rec EXCEPT !.pc = "copySurvivors", !.i = 1,
                     !.snapshotPayload = snapshotPayload,
                     !.diagnosticsPayload = diagnosticsPayload,
                     !.framePaths = framePaths,
                     !.dropFrames = FALSE])
    /\ UNCHANGED <<now, options, redaction, persisted>>
    /\ UNCHANGED bufferVars
    /\ UNCHANGED diskVars

\* Lines 455-463: one round of the second loop (a missing path is skipped, an
\* existing one is copied under its base name), or the loop is over.
PersistCopySurvivors(c) ==
    /\ call[c].pc = "copySurvivors"
    /\ LET rec == call[c]
           runDir == RunDirName(rec.ts)
       IN IF ~rec.dropFrames /\ rec.i <= Len(rec.framePaths)
          THEN LET framePath == rec.framePaths[rec.i]
               IN /\ outFrames' =
                        IF ExistsSync(framePath)
                        THEN Put(outFrames, <<runDir, Basename(framePath)>>,
                                 FileBytes(framePath))
                        ELSE outFrames
                  /\ call' = ThisCall(c, [rec EXCEPT !.i = rec.i + 1])
          ELSE /\ call' = ThisCall(c, [rec EXCEPT !.pc = "snapshot"])
               /\ UNCHANGED outFrames
    /\ UNCHANGED <<now, options, redaction, persisted, runDirs, outJson, outClip>>
    /\ UNCHANGED bufferVars

\* Lines 415 and 461 while fs.promises.copyFile is at work: the destination
\* under <runDir>/frames exists and holds a part of the source. Nothing but a
\* crash (or another call) sees this state.
FrameCopyBegins(c) ==
    /\ call[c].pc \in {"copyFrames", "copySurvivors"}
    /\ LET rec == call[c]
           runDir == RunDirName(rec.ts)
           pending == IF rec.pc = "copyFrames"
                      THEN rec.i <= Len(rec.loop)
                      ELSE ~rec.dropFrames /\ rec.i <= Len(rec.framePaths)
       IN /\ pending
          /\ LET source == IF rec.pc = "copyFrames" THEN rec.loop[rec.i].filePath
                           ELSE rec.framePaths[rec.i]
                 dest == <<runDir, Basename(source)>>
             IN /\ ExistsSync(source)
                /\ IF dest \in DOMAIN outFrames THEN outFrames[dest] # Truncated
                   ELSE TRUE
                /\ outFrames' = Put(outFrames, dest, Truncated)
    /\ UNCHANGED <<now, options, redaction, persisted, call, runDirs, outJson, outClip>>
    /\ UNCHANGED bufferVars

\* Lines 465-469
PersistSnapshot(c) ==
    /\ call[c].pc = "snapshot"
    /\ LET rec == call[c]
       IN call' = ThisCall(c,
            IF Truthy(rec.snapshotPayload)
            THEN BeginWriteJson(rec, "snapshot.json", rec.snapshotPayload,
                                "diagnostics")
            ELSE [rec EXCEPT !.pc = "diagnostics"])
    /\ UNCHANGED <<now, options, redaction, persisted>>
    /\ UNCHANGED bufferVars
    /\ UNCHANGED diskVars

\* Lines 471-475
PersistDiagnostics(c) ==
    /\ call[c].pc = "diagnostics"
    /\ LET rec == call[c]
       IN call' = ThisCall(c,
            IF Truthy(rec.diagnosticsPayload)
            THEN BeginWriteJson(rec, "diagnostics.json", rec.diagnosticsPayload,
                                "clip")
            ELSE [rec EXCEPT !.pc = "clip"])
    /\ UNCHANGED <<now, options, redaction, persisted>>
    /\ UNCHANGED bufferVars
    /\ UNCHANGED diskVars

\* (mutant) line 481 without the test of clip.mode.
ClipAttemptedInAnyMode(rec) ==
    /\ ~rec.dropFrames
    /\ Len(rec.framePaths) > 0

\* (mutant) line 481 without the test of dropFrames.
ClipAttemptedDespiteDrop(rec) ==
    /\ Len(rec.framePaths) > 0
    /\ options.clip.mode # "off"

\* Line 481: whether persist goes on to the encoder's capability probe.
ClipAttempted(rec) ==
    /\ ~rec.dropFrames
    /\ Len(rec.framePaths) > 0
    /\ options.clip.mode # "off"

\* Lines 224-230: the files of <runDir>/frames the clip is made from.
ClipFrameFiles(runDir) ==
    {k[2] : k \in {x \in DOMAIN outFrames :
                     /\ x[1] = runDir
                     /\ x[2][1] = "frame_"
                     /\ x[2][Len(x[2])] \in {"png", "jpeg", "jpg"}}}

\* Array.prototype.sort() on file names: the order of their UTF-16 code units.
\* A name is "frame_", decimal digits, "." and a format; "." sorts before every
\* digit, and the formats sort as jpeg < jpg < png.
NameTokens == <<".", "0", "1", "2", "3", "4", "5", "6", "7", "8", "9",
                "frame_", "jpeg", "jpg", "png">>

TokenRank(tok) == CHOOSE r \in 1..Len(NameTokens) : NameTokens[r] = tok

NameLess(a, b) ==
    \E k \in 1..Len(a) :
        /\ k <= Len(b)
        /\ \A j \in 1..(k - 1) : a[j] = b[j]
        /\ TokenRank(a[k]) < TokenRank(b[k])

SortNames(names) ==
    CHOOSE sorted \in [1..Cardinality(names) -> names] :
        \A i, j \in 1..Cardinality(names) : i < j => NameLess(sorted[i], sorted[j])

\* Lines 224-230: the sorted list of files generateClipFromFrames hands on.
ClipFrameList(runDir) == SortNames(ClipFrameFiles(runDir))

\* (mutant) generateClipFromFrames without the test of result.status (lines
\* 277-281): it returns fs.existsSync(outputPath).
ClipResultIfOutput(encoder) == encoder \in {"ok", "partial"}

\* (mutant) generateClipFromFrames without the test of the output file (line
\* 283): it returns true whenever the encoder's status is 0.
ClipResultIfStatusZero(encoder) == encoder \in {"ok", "noOutput"}

\* What spawnSync reports and what it leaves behind, per encoder outcome.
EncoderStatusZero(encoder) == encoder \in {"ok", "noOutput"}

\* Lines 277-286: the value generateClipFromFrames returns for what ffmpeg did.
ClipResult(encoder) == encoder = "ok"

\* Lines 513-528
Manifest(rec, clipGenerated) ==
    [run_id |-> RunId,
     created_at_ms |-> rec.ts,
     status |-> rec.status,
     reason |-> rec.reason,
     buffer_seconds |-> options.bufferSeconds,
     frame_count |-> IF rec.dropFrames THEN 0 ELSE Len(rec.framePaths),
     frames |-> IF rec.dropFrames THEN <<>>
                ELSE [k \in 1..Len(rec.framePaths) |->
                        [file |-> Basename(rec.framePaths[k]), ts |-> Null]],
     snapshot |-> IF rec.snapshotWritten THEN Str("snapshot.json") ELSE Null,
     diagnostics |-> IF rec.diagnosticsWritten THEN Str("diagnostics.json") ELSE Null,
     clip |-> IF clipGenerated THEN Str("failure.mp4") ELSE Null,
     clip_fps |-> IF clipGenerated THEN Num(options.clip.fps) ELSE Null,
     metadata |-> IF rec.metadata = Undefined THEN [kind |-> "object"]
                  ELSE rec.metadata,
     frames_redacted |-> ~rec.dropFrames /\ options.onBeforePersist,
     frames_dropped |-> rec.dropFrames]

\* Another FailureArtifactBuffer constructed with runId and the same outputDir
\* reaches the end of its persist (lines 408-412 and 513-529) while its clock
\* reads now: its run directory exists and its manifest.json is renamed into
\* place there.
PeerManifest(runId, ts) ==
    [Manifest([IdleCall EXCEPT !.ts = ts, !.reason = "fail"], FALSE)
        EXCEPT !.run_id = runId]

PeerPersists(runId) ==
    /\ LET runDir == RunDirNameOf(runId, now)
       IN /\ runDirs' = runDirs \cup {runDir}
          /\ outJson' = Put(outJson, <<runDir, FinalName("manifest.json")>>,
                            PeerManifest(runId, now))
    /\ UNCHANGED <<now, options, redaction, persisted, call, outFrames, outClip>>
    /\ UNCHANGED bufferVars

\* Line 238: the concat list of generateClipFromFrames, a file of
\* <runDir>/frames.
ListFile == <<"frames_list.txt">>

\* (mutant) the list file unlinked at the end of the try block: not after a
\* return for a non-zero status, nor after an error.
ListFileUnlinkedOnSuccess(encoder) == encoder \in {"ok", "noOutput"}

\* Lines 287-294: the finally block unlinks the list file after every way out
\* of the try block, whatever the encoder did.
ListFileUnlinked(encoder) == TRUE

\* (mutant) the missing encoder is reported in mode 'auto' as well.
ProbeWarnsInAnyMode(mode, available) == ~available

\* Lines 483-496: after the probe, console.warn("ffmpeg not found on PATH but
\* clip.mode='on'...") is reached in mode 'on' only; mode 'auto' has no warning.
ProbeWarns(mode, available) == mode = "on" /\ ~available

\* What console.warn is called with in the clip block: by persist for a missing
\* encoder in mode 'on' (line 492) and for a generator that returned false
\* (line 508), by generateClipFromFrames for a frames directory without frame
\* file (line 233), for a non-zero status (line 279) and for an error caught
\* (line 285).
ClipWarnings(mode, probed, available, hasFiles, encoder) ==
    (IF probed /\ ProbeWarns(mode, available) THEN {"ffmpegNotFound"} ELSE {})
    \cup (IF probed /\ available /\ ~hasFiles THEN {"noFrameFiles"} ELSE {})
    \cup (IF probed /\ available /\ hasFiles /\ encoder \in {"fail", "partial"}
          THEN {"ffmpegFailed"} ELSE {})
    \cup (IF probed /\ available /\ hasFiles /\ encoder = "throw"
          THEN {"errorGenerating"} ELSE {})
    \cup (IF probed /\ available /\ ~(hasFiles /\ ClipResult(encoder))
          THEN {"clipFailed"} ELSE {})

\* Lines 477-529: the probe and the encoder where they run, then the manifest
\* is built and writeJsonAtomic is called for it. available is the probe's
\* answer (a probe that throws or times out answers no), encoder what ffmpeg
\* does: "ok" (status 0, failure.mp4 written), "noOutput" (status 0, no file),
\* "fail" (another status, or a timeout, no file), "partial" (another status,
\* or a timeout, an incomplete failure.mp4 left behind), "throw" (spawnSync or
\* the write of the list file throws).
PersistClip(c, available, encoder) ==
    /\ call[c].pc = "clip"
    /\ LET rec == call[c]
           runDir == RunDirName(rec.ts)
           probed == ClipAttempted(rec)
           shouldGenerate == probed /\ available
           invoked == shouldGenerate /\ ClipFrameFiles(runDir) # {}
           clipGenerated == invoked /\ ClipResult(encoder)
           after == [rec EXCEPT !.clipGenerated = clipGenerated,
                                !.probeCalls = @ + (IF probed THEN 1 ELSE 0),
                                !.encoderCalls = @ + (IF invoked THEN 1 ELSE 0),
                                !.probe = IF ~probed THEN "none"
                                          ELSE IF available THEN "available"
                                          ELSE "unavailable",
                                !.encoder = IF invoked THEN encoder ELSE "none",
                                !.clipInput = IF invoked THEN ClipFrameList(runDir)
                                              ELSE <<>>,
                                !.generateCalls =
                                    @ + (IF shouldGenerate THEN 1 ELSE 0),
                                !.warnings =
                                    ClipWarnings(options.clip.mode, probed, available,
                                                 ClipFrameFiles(runDir) # {}, encoder)]
       IN /\ outClip' = IF invoked /\ encoder \in {"ok", "partial"}
                        THEN outClip \cup {runDir} ELSE outClip
          /\ outFrames' = IF invoked /\ ~ListFileUnlinked(encoder)
                          THEN Put(outFrames, <<runDir, ListFile>>, 0)
                          ELSE outFrames
          /\ call' = ThisCall(c, BeginWriteJson(after, "manifest.json",
                                                Manifest(after, clipGenerated),
                                                "commit"))
    /\ UNCHANGED <<now, options, redaction, persisted, runDirs, outJson>>
    /\ UNCHANGED bufferVars

\* Lines 531-532
PersistCommit(c) ==
    /\ call[c].pc = "commit"
    /\ persisted' = TRUE
    /\ call' = ThisCall(c, [call[c] EXCEPT !.pc = "returned",
                                           !.result = Str(RunDirName(call[c].ts))])
    /\ UNCHANGED <<now, options, redaction>>
    /\ UNCHANGED bufferVars
    /\ UNCHANGED diskVars

\* ------------------------------------------------------------ constructor
\* The options argument of the constructor is an object of JS values: a field
\* the caller left out is no field of the record. A hook is a function.
EmptyOptions == [kind |-> "object"]
Hook == [kind |-> "function"]

Nullish(v) == v.kind \in {"undefined", "null"}

Falsy(v) ==
    CASE v.kind = "number" -> v.v = 0
      [] v.kind = "boolean" -> ~v.v
      [] v.kind = "string" -> v.v = ""
      [] OTHER -> Nullish(v)

\* (mutant) in[field] || default
DefaultIfFalsy(in, field, default) ==
    IF field \in DOMAIN in /\ ~Falsy(in[field]) THEN in[field] ELSE default

\* in[field] ?? default: the property where it is neither undefined nor null.
Default(in, field, default) ==
    IF field \in DOMAIN in /\ ~Nullish(in[field]) THEN in[field] ELSE default

\* Lines 332-345: this.options for the options argument in. The fields the
\* steps compute with are kept as plain values, onBeforePersist as whether a
\* hook is configured (FALSE for null), clip.seconds as the JS value it is.
Construct(in) ==
    LET clip == IF "clip" \in DOMAIN in /\ ~Nullish(in.clip)
                THEN in.clip ELSE EmptyOptions
    IN [bufferSeconds |-> Default(in, "bufferSeconds", Num(15)).v,
        captureOnAction |-> Default(in, "captureOnAction", Bool(TRUE)).v,
        fps |-> Default(in, "fps", Num(0)).v,
        persistMode |-> Default(in, "persistMode", Str("onFail")).v,
        outputDir |-> Default(in, "outputDir", Str(".sentience/artifacts")).v,
        onBeforePersist |-> Default(in, "onBeforePersist", Null) = Hook,
        redactSnapshotValues |-> Default(in, "redactSnapshotValues", Bool(TRUE)).v,
        clip |-> [mode |-> Default(clip, "mode", Str("auto")).v,
                  fps |-> Default(clip, "fps", Num(8)).v,
                  seconds |-> IF "seconds" \in DOMAIN clip THEN clip.seconds
                              ELSE Undefined]]

\* --------------------------------------------------------------- inputs
\* Snapshots and diagnostics the caller hands to persist.
TextType == <<"t", "e", "x", "t">>
PasswordUpper == <<"P", "A", "S", "S", "W", "O", "R", "D">>

LoginSnapshot ==
    [kind |-> "object", url |-> "https://example.com",
     elements |-> Arr(<<[id |-> 1, input_type |-> PasswordUpper, value |-> Str("secret")],
                        [id |-> 2, input_type |-> TextType, value |-> Str("hello")]>>)]

CallerDiagnostics == [kind |-> "object", confidence |-> 8]
CallerMetadata == [kind |-> "object", backend |-> "MockBackend"]

\* What a hook may put in place of them.
HookSnapshot == [kind |-> "object", url |-> "about:blank", elements |-> Undefined]
HookDiagnostics == [kind |-> "object", confidence |-> 0]

\* Replacement frame-path lists a hook may return for the paths it was given:
\* none, all but the first, a path that does not exist, a redacted copy (same
\* base name, another directory) of the first followed by the first.
GoneFrame == <<"frame_", "9", ".", "png">>

HookFramePathLists(framePaths) ==
    {Undefined, Arr(<<>>)}
    \cup (IF framePaths = <<>> THEN {}
          ELSE {Arr(Tail(framePaths)),
                Arr(<<PathJoin(MissingDir, GoneFrame)>>),
                Arr(<<PathJoin(RedactedDir, framePaths[1].name), framePaths[1]>>)})

\* What a hook may do: throw, return nothing, or return a result that replaces
\* the frame paths or the payloads, with or without asking to drop the frames.
HookOutcomes(framePaths, payloads) ==
    {HookThrows, HookReturnsUndefined}
    \cup {HookResult(Undefined, Undefined, f, drop) :
            f \in HookFramePathLists(framePaths), drop \in BOOLEAN}
    \cup {HookResult(p[1], p[2], Undefined, drop) : p \in payloads, drop \in BOOLEAN}

EncoderOutcomes == {"ok", "noOutput", "fail", "partial", "throw"}

\* ------------------------------------------------------------ next-state
\* The steps of the buffer's caller and of the clock, within the bounds: the
\* bytes of the n-th frame are written n.
BufferStep(maxTick, maxAdds, formats) ==
    \/ now < 500 * maxTick /\ Tick
    \/ Len(steps) < MaxSteps /\ RecordStep("CLICK", "s1", Undefined)
    \/ \E fmt \in formats :
          Len(submitted) < maxAdds /\ AddFrameCall(Len(submitted) + 1, fmt)
    \/ AddFrameResume

PersistStep(c, outcomes, encoders) ==
    \/ PersistMkdirOut(c)
    \/ PersistMkdirFrames(c)
    \/ PersistCopyFrames(c)
    \/ WriteJsonTmp(c)
    \/ WriteJsonRename(c)
    \/ \E outcome \in outcomes : PersistRedact(c, outcome)
    \/ PersistCopySurvivors(c)
    \/ PersistSnapshot(c)
    \/ PersistDiagnostics(c)
    \/ \E available \in BOOLEAN, encoder \in encoders :
          PersistClip(c, available, encoder)
    \/ PersistCommit(c)

\* The payload pairs (snapshot, diagnostics) of the step-by-step runs.
CallerPayloads == {<<Undefined, Undefined>>, <<LoginSnapshot, CallerDiagnostics>>}
HookPayloads == {<<HookSnapshot, Null>>, <<Null, HookDiagnostics>>}

Init == InitWith(OptionChoices)

\* The run has not reached its terminal event: persist has not been called.
Running == \A c \in Calls : call[c].pc = "idle"

\* One caller drives the buffer: it awaits each call before the next one, and
\* it records steps and frames until the run's terminal event, where it calls
\* persist (and may call it again). The clock goes on.
Next ==
    \/ Running /\ BufferStep(MaxPersistTick, MaxPersistAdds, {"png"})
    \/ ~Running /\ now < 500 * MaxPersistTick /\ Tick
    \/ \E c \in Calls, p \in CallerPayloads :
          NoCallActive /\ PersistCall(c, "fail", "failure", p[1], p[2], Undefined)
    \/ \E c \in Calls :
          PersistStep(c, HookOutcomes(FramePathsOf(frames), HookPayloads),
                      {"ok", "fail"})

Spec == Init /\ [][Next]_vars

\* The buffer alone, over a longer run of the clock, with both frame formats.
BufferOptionChoices ==
    [bufferSeconds : {0, 1}, onBeforePersist : {FALSE},
     redactSnapshotValues : {TRUE}, clip : [mode : {"auto"}, fps : {8}]]

InitBuffer == InitWith(BufferOptionChoices)

NextBuffer == BufferStep(MaxTick, MaxAdds, Formats)

SpecBuffer == InitBuffer /\ [][NextBuffer]_vars

\* The buffer with deletions that may fail: each unlinkSync of prune() either
\* removes the file or throws.
InitUnlink == InitWith(BufferOptionChoices)

NextUnlink ==
    \/ BufferStep(MaxTick, MaxAdds, Formats)
    \/ \E failed \in SUBSET (DOMAIN scratch \cup {af.fileName}) :
          AddFrameResumeUnlinkFails(failed)

SpecUnlink == InitUnlink /\ [][NextUnlink]_vars

\* The buffer with scratch writes that may fail.
AddFailOptionChoices ==
    [bufferSeconds : {1}, onBeforePersist : {FALSE},
     redactSnapshotValues : {TRUE}, clip : [mode : {"auto"}, fps : {8}]]

InitAddFail == InitWith(AddFailOptionChoices)

NextAddFail ==
    \/ BufferStep(MaxTick, MaxPersistAdds, {"png"})
    \/ \E leftover \in BOOLEAN : AddFrameReject(leftover)

SpecAddFail == InitAddFail /\ [][NextAddFail]_vars

\* The buffer under a clock that may go back.
ClockValues == {500 * k : k \in 0..MaxPersistTick + 1}

AnyClockOptionChoices ==
    [bufferSeconds : {1}, onBeforePersist : {FALSE},
     redactSnapshotValues : {TRUE}, clip : [mode : {"auto"}, fps : {8}]]

InitAnyClock == InitWith(AnyClockOptionChoices)

NextAnyClock ==
    \/ BufferStep(MaxPersistTick, MaxPersistAdds, {"png"})
    \/ \E t \in ClockValues : ClockReturns(t)

SpecAnyClock == InitAnyClock /\ [][NextAnyClock]_vars

\* Two persist calls on one instance that may overlap. A call runs from one
\* awaited operation to the next without interruption, so another call takes
\* a step only while this one is suspended at an await.
Suspended(c) ==
    LET rec == call[c]
    IN \/ rec.pc \in {"mkdirOut", "mkdirFrames", "writeTmp", "rename"}
       \/ rec.pc = "copyFrames" /\ rec.i <= Len(rec.loop)
       \/ /\ rec.pc = "copySurvivors"
          /\ ~rec.dropFrames
          /\ rec.i <= Len(rec.framePaths)
          /\ ExistsSync(rec.framePaths[rec.i])

OthersSuspended(c) == \A d \in Calls \ {c} : Active(d) => Suspended(d)

Overlapping == {1, 2}

InterleaveHookOutcomes ==
    {HookThrows, HookReturnsUndefined,
     HookResult(Undefined, Undefined, Undefined, TRUE)}

InterleaveOptionChoices ==
    [bufferSeconds : {1}, onBeforePersist : BOOLEAN,
     redactSnapshotValues : {TRUE}, clip : [mode : {"off"}, fps : {8}]]

InitInterleave == InitWith(InterleaveOptionChoices)

NextInterleave ==
    \/ Running /\ BufferStep(MaxPersistTick, MaxInterleaveAdds, {"png"})
    \/ ~Running /\ now < 500 * MaxPersistTick /\ Tick
    \/ \E c \in Overlapping :
          OthersSuspended(c)
          /\ PersistCall(c, "fail", "failure", Undefined, Undefined, Undefined)
    \/ \E c \in Overlapping :
          OthersSuspended(c) /\ PersistStep(c, InterleaveHookOutcomes, {"ok"})

SpecInterleave == InitInterleave /\ [][NextInterleave]_vars

\* One persist call on an empty buffer, over the snapshots of at most
\* MaxElements elements: each element is null or an object with an id, with or
\* without an input_type and with or without a value.
EmailMixed == <<"E", "m", "a", "i", "l">>
TelUpper == <<"T", "E", "L">>
InputTypeChoices == {Password, PasswordUpper, EmailMixed, TelUpper, TextType}

ElementChoices ==
    {Null}
    \cup {[id |-> 1]}
    \cup {[id |-> 1, value |-> Str("secret")]}
    \cup {[id |-> 1, input_type |-> Password]}
    \cup {[id |-> 1, input_type |-> t, value |-> Str("secret")] : t \in InputTypeChoices}

SnapshotChoices ==
    {[kind |-> "object", url |-> "https://example.com", elements |-> Undefined]}
    \cup {[kind |-> "object", url |-> "https://example.com", elements |-> Arr(items)] :
            items \in UNION {[1..n -> ElementChoices] : n \in 0..MaxElements}}

SnapshotOptionChoices ==
    [bufferSeconds : {1}, onBeforePersist : BOOLEAN,
     redactSnapshotValues : BOOLEAN, clip : [mode : {"auto"}, fps : {8}]]

InitSnapshots == InitWith(SnapshotOptionChoices)

NextSnapshots ==
    \/ \E snapshot \in SnapshotChoices :
          PersistCall(1, "fail", "failure", snapshot, Undefined, CallerMetadata)
    \/ \E c \in Calls :
          PersistStep(c, HookOutcomes(<<>>, {<<HookSnapshot, Undefined>>}), {"ok"})

SpecSnapshots == InitSnapshots /\ [][NextSnapshots]_vars

\* redactSnapshotDefaults on its own: the payload is any of the snapshots, a
\* primitive, or an object whose elements property is no array; the function
\* is applied to it and then to its own result.
PayloadChoices ==
    SnapshotChoices
    \cup {Undefined, Null, Str("text"), Num(7),
          [kind |-> "object", url |-> "https://example.com", elements |-> Str("none")]}

InitRedact ==
    InitGiven(AddFailOptionChoices, {Allocate(payload) : payload \in PayloadChoices})

NextRedact == RedactCall

SpecRedact == InitRedact /\ [][NextRedact]_vars

\* The step log: recordStep and addFrame calls in any order while the clock
\* goes on, with a window of 0 s so that every earlier frame is evicted, then
\* persist.
StepActions == {"CLICK", "TYPE"}

StepLogOptionChoices ==
    [bufferSeconds : {0}, onBeforePersist : BOOLEAN,
     redactSnapshotValues : {TRUE}, clip : [mode : {"off"}, fps : {8}]]

InitSteps == InitWith(StepLogOptionChoices)

NextSteps ==
    \/ Running /\ now < 500 * MaxPersistTick /\ Tick
    \/ \E action \in StepActions :
          Running /\ Len(steps) < MaxLogSteps /\ RecordStep(action, "s1", Undefined)
    \/ Running /\ Len(submitted) < MaxPersistAdds
               /\ AddFrameCall(Len(submitted) + 1, "png")
    \/ AddFrameResume
    \/ PersistCall(1, "fail", "failure", Undefined, Undefined, Undefined)
    \/ PersistStep(1, InterleaveHookOutcomes, {"ok"})

SpecSteps == InitSteps /\ [][NextSteps]_vars

\* The clip: one persist call with clip generation on or automatic, over
\* every answer of the probe and everything the encoder may do.
ClipOptionChoices ==
    [bufferSeconds : {1}, onBeforePersist : BOOLEAN,
     redactSnapshotValues : {TRUE}, clip : [mode : {"auto", "on"}, fps : {8}]]

ClipHookOutcomes ==
    {HookThrows, HookResult(Undefined, Undefined, Undefined, FALSE)}

InitClip == InitWith(ClipOptionChoices)

\* The clip attempt: every clip mode and two frame rates, a hook that throws,
\* returns an empty result, or names one frame that does not exist, and
\* everything the encoder may do.
AttemptOptionChoices ==
    [bufferSeconds : {1}, onBeforePersist : BOOLEAN,
     redactSnapshotValues : {TRUE},
     clip : [mode : {"off", "auto", "on"}, fps : {8, 12}]]

AttemptHookOutcomes ==
    ClipHookOutcomes
    \cup {HookResult(Undefined, Undefined, Arr(<<PathJoin(MissingDir, GoneFrame)>>),
                     FALSE)}

InitAttempt == InitWith(AttemptOptionChoices)

NextAttempt ==
    \/ Running /\ BufferStep(MaxPersistTick, MaxPersistAdds, {"png"})
    \/ PersistCall(1, "fail", "failure", Undefined, Undefined, Undefined)
    \/ PersistStep(1, AttemptHookOutcomes, EncoderOutcomes)

SpecAttempt == InitAttempt /\ [][NextAttempt]_vars

NextClip ==
    \/ Running /\ BufferStep(MaxPersistTick, MaxPersistAdds, {"png"})
    \/ PersistCall(1, "fail", "failure", LoginSnapshot, CallerDiagnostics, Undefined)
    \/ PersistStep(1, ClipHookOutcomes, EncoderOutcomes)

SpecClip == InitClip /\ [][NextClip]_vars

\* Persist calls one after the other, with the states in which a JSON write is
\* under way. The process may stop in any state: what is on disk then is what
\* the state's outJson holds.
CrashOptionChoices ==
    [bufferSeconds : {1}, onBeforePersist : BOOLEAN,
     redactSnapshotValues : {TRUE}, clip : [mode : {"off"}, fps : {8}]]

InitCrash == InitWith(CrashOptionChoices)

NextCrash ==
    \/ Running /\ BufferStep(MaxPersistTick, MaxInterleaveAdds, {"png"})
    \/ \E c \in Calls :
          NoCallActive
          /\ PersistCall(c, "fail", "failure", LoginSnapshot, CallerDiagnostics,
                         Undefined)
    \/ \E c \in Calls : PersistStep(c, ClipHookOutcomes, {"ok"})
    \/ \E c \in Calls : WriteJsonTmpBegins(c)
    \/ \E c \in Calls : FrameCopyBegins(c)

SpecCrash == InitCrash /\ [][NextCrash]_vars

\* Durable writes that fail: persist calls one after the other, each JSON
\* write either completing or rejecting, so that a call may throw after any
\* number of files and a later call find the instance not persisted.
InitCommit == InitWith(CrashOptionChoices)

NextCommit ==
    \/ Running /\ BufferStep(MaxPersistTick, MaxInterleaveAdds, {"png"})
    \/ \E c \in Calls :
          NoCallActive
          /\ PersistCall(c, "fail", "failure", LoginSnapshot, CallerDiagnostics,
                         Undefined)
    \/ \E c \in Calls : PersistStep(c, ClipHookOutcomes, {"ok"})
    \/ \E c \in Calls, leftover \in BOOLEAN : WriteJsonTmpRejects(c, leftover)

SpecCommit == InitCommit /\ [][NextCommit]_vars

\* The hook at work: persist calls one after the other, with and without a
\* hook, the redaction toggle on and off, no clip; the hook throws, returns
\* nothing or returns any of the results.
HookOptionChoices ==
    [bufferSeconds : {1}, onBeforePersist : BOOLEAN,
     redactSnapshotValues : BOOLEAN, clip : [mode : {"off"}, fps : {8}]]

InitHook == InitWith(HookOptionChoices)

NextHook ==
    \/ Running /\ BufferStep(MaxPersistTick, MaxPersistAdds, {"png"})
    \/ \E c \in Calls, p \in CallerPayloads :
          NoCallActive /\ PersistCall(c, "fail", "failure", p[1], p[2], Undefined)
    \/ \E c \in Calls :
          PersistStep(c, HookOutcomes(FramePathsOf(frames), HookPayloads), {"ok"})

SpecHook == InitHook /\ [][NextHook]_vars

\* A hook that returns no result object: persist with a hook that returns
\* undefined, returns null, throws, or returns an empty result, the toggle on
\* and off, and a clip asked for.
NoResultOptionChoices ==
    [bufferSeconds : {1}, onBeforePersist : {TRUE},
     redactSnapshotValues : BOOLEAN, clip : [mode : {"on"}, fps : {8}]]

NoResultHookOutcomes ==
    {HookReturnsUndefined, HookReturnsNull, HookThrows,
     HookResult(Undefined, Undefined, Undefined, FALSE)}

InitNoResult == InitWith(NoResultOptionChoices)

NextNoResult ==
    \/ Running /\ BufferStep(MaxPersistTick, MaxPersistAdds, {"png"})
    \/ \E p \in CallerPayloads :
          PersistCall(1, "fail", "failure", p[1], p[2], Undefined)
    \/ PersistStep(1, NoResultHookOutcomes, {"ok"})

SpecNoResult == InitNoResult /\ [][NextNoResult]_vars

\* Other buffer instances persist under the same output directory while the
\* buffer under study does: instances with the same run id, with another run
\* id, and with a run id that differs by a leading "./" only, each at the time
\* the shared clock shows. No frames are captured.
PeerRunIds == {RunId, OtherRunId, DotRunId}

PeerOptionChoices ==
    [bufferSeconds : {1}, onBeforePersist : {FALSE},
     redactSnapshotValues : {TRUE}, clip : [mode : {"off"}, fps : {8}]]

InitPeers == InitWith(PeerOptionChoices)

NextPeers ==
    \/ now < 500 * MaxPersistTick /\ Tick
    \/ NoCallActive
       /\ PersistCall(1, "fail", "failure", Undefined, Undefined, Undefined)
    \/ PersistStep(1, {HookThrows}, {"ok"})
    \/ \E runId \in PeerRunIds : PeerPersists(runId)

SpecPeers == InitPeers /\ [][NextPeers]_vars

\* The whole life of a buffer with cleanup called at any point between the
\* caller's other calls, more than once: before any frame, after frames,
\* before and after persist, after a persist that failed. Once the scratch
\* directory is gone the write of addFrame fails and leaves nothing behind.
InitCleanup == InitWith(CrashOptionChoices)

NextCleanup ==
    \/ BufferStep(MaxPersistTick, MaxPersistAdds, {"png"})
    \/ ~tempDir.exists /\ AddFrameReject(FALSE)
    \/ \E c \in Calls :
          NoCallActive
          /\ PersistCall(c, "fail", "failure", Undefined, Undefined, Undefined)
    \/ \E c \in Calls : PersistStep(c, ClipHookOutcomes, {"ok"})
    \/ Cleanup

SpecCleanup == InitCleanup /\ [][NextCleanup]_vars

\* Buffers constructed with any subset of the options, and of the clip
\* sub-options, supplied; then frames are recorded.
Omitted == [kind |-> "omitted"]

\* rec without the fields marked as left out
Supplied(rec) ==
    [f \in {g \in DOMAIN rec : g = "kind" \/ rec[g] # Omitted} |-> rec[f]]

ClipArgChoices ==
    {Supplied(clip) : clip \in [kind : {"object"},
                                mode : {Omitted, Str("on")},
                                fps : {Omitted, Num(15)},
                                seconds : {Omitted, Num(30)}]}

CallerOptionChoices ==
    {Supplied(in) : in \in [kind : {"object"},
                            bufferSeconds : {Omitted, Num(0)},
                            captureOnAction : {Omitted, Bool(FALSE)},
                            fps : {Omitted},
                            persistMode : {Omitted, Str("always")},
                            outputDir : {Omitted},
                            onBeforePersist : {Omitted, Null, Hook},
                            redactSnapshotValues : {Omitted, Bool(FALSE)},
                            clip : {Omitted} \cup ClipArgChoices]}

InitDefaults == InitWith({Construct(in) : in \in CallerOptionChoices})

NextDefaults ==
    \/ Len(submitted) < MaxDefaultAdds /\ AddFrameCall(Len(submitted) + 1, "png")
    \/ AddFrameResume

SpecDefaults == InitDefaults /\ [][NextDefaults]_vars

\* ---------------------------------------------------- reading the bundle
RunDirOf(c) == RunDirName(call[c].ts)
FrameFilesIn(runDir) == {k[2] : k \in {x \in DOMAIN outFrames : x[1] = runDir}}
HasJson(runDir, file) == <<runDir, FinalName(file)>> \in DOMAIN outJson
ReadJson(runDir, file) == outJson[<<runDir, FinalName(file)>>]
ReturnedPath(c) == call[c].pc = "returned" /\ call[c].result # Null
ReturnedNull(c) == call[c].pc = "returned" /\ call[c].result = Null

\* ------------------------------------------------------------------ C1
\* C1 (drop semantics): whenever persist has returned a path and the hook asked
\* to drop the frames or threw, the manifest has frame_count = 0 and
\* frames_dropped = true and <runDir>/frames holds no frame file.
C1_DropSemantics ==
    \A c \in Calls :
        (ReturnedPath(c) /\ call[c].hookCalls = 1 /\ call[c].dropFrames) =>
            /\ ReadJson(RunDirOf(c), "manifest.json").frame_count = 0
            /\ ReadJson(RunDirOf(c), "manifest.json").frames_dropped
            /\ FrameFilesIn(RunDirOf(c)) = {}

\* ------------------------------------------------------------------ C2
\* C2 (idempotent persist): of the persist calls made one after the other, the
\* first returns the run directory's path and every later one returns null; a
\* call made on a persisted instance returns at once and leaves every file and
\* directory as it was, without invoking the hook, the probe or the encoder.
C2_IdempotentPersist ==
    [][\A c \in Calls :
        /\ (call'[c].pc = "returned") =>
              call'[c].result = (IF c = 1 THEN Str(RunDirName(call'[c].ts)) ELSE Null)
        /\ (call[c].pc = "idle" /\ call'[c].pc # "idle" /\ c > 1) =>
              /\ call'[c].pc = "returned"
              /\ call'[c].hookCalls = 0
              /\ call'[c].probeCalls = 0
              /\ call'[c].encoderCalls = 0
              /\ UNCHANGED diskVars
              /\ UNCHANGED <<scratch, frames, steps>>]_vars

\* A second call has returned null after a first one, with a hook and a frame
\* in the buffer, wrote a bundle.
C2_Witness ==
    /\ ReturnedPath(1)
    /\ ReturnedNull(2)
    /\ options.onBeforePersist
    /\ Len(frames) > 0
    /\ HasJson(RunDirOf(1), "manifest.json")

\* ------------------------------------------------------------------ C3
\* C3 (pruning invariant): under a non-decreasing clock, when an addFrame call
\* ends, frameCount() is the number of frames submitted so far whose timestamp
\* is at or after the clock value read by that call's prune minus the window;
\* a frame exactly at the cutoff is counted, so retained.
C3_PruningInvariant ==
    [][(af.pc = "writeFile" /\ af'.pc = "idle") =>
          Len(frames') =
            Cardinality({k \in 1..Len(submitted') :
                submitted'[k] >= now' - options.bufferSeconds * 1000})]_vars

\* Three frames were submitted; the first is evicted, the second sits exactly
\* at the cutoff and is retained with the third.
C3_Witness ==
    /\ ~AddInFlight
    /\ Len(submitted) = 3
    /\ Len(frames) = 2
    /\ options.bufferSeconds = 1
    /\ frames[1].ts = now - 1000
    /\ frames[2].ts = now

\* ------------------------------------------------------------------ C4
\* C4 (manifest/disk agreement): after every persist call that returned a path
\* the manifest's frame_count is the number of files under <runDir>/frames and
\* the file names of its frames[] are exactly the names of those files.
C4_ManifestDiskAgreement ==
    \A c \in Calls :
        ReturnedPath(c) =>
            LET m == ReadJson(RunDirOf(c), "manifest.json")
            IN /\ m.frame_count = Cardinality(FrameFilesIn(RunDirOf(c)))
               /\ {m.frames[k].file : k \in 1..Len(m.frames)} = FrameFilesIn(RunDirOf(c))

\* ------------------------------------------------------------------ C5
\* The bundle of a call whose frames were dropped with nothing else replaced,
\* stated from the call's arguments and the frames it looped over alone.
FailSafeBundle(c) ==
    LET rec == call[c]
        runDir == RunDirOf(c)
        m == ReadJson(runDir, "manifest.json")
    IN /\ FrameFilesIn(runDir) = {rec.loop[k].fileName : k \in 1..Len(rec.loop)}
       /\ \A k \in 1..Len(rec.loop) :
             outFrames[<<runDir, rec.loop[k].fileName>>] = scratch[rec.loop[k].fileName]
       /\ HasJson(runDir, "snapshot.json") <=> Truthy(rec.snapshot)
       /\ HasJson(runDir, "snapshot.json") =>
             ReadJson(runDir, "snapshot.json") =
                IF options.redactSnapshotValues
                THEN RedactSnapshotDefaults(rec.snapshot) ELSE rec.snapshot
       /\ HasJson(runDir, "diagnostics.json") <=> Truthy(rec.diagnostics)
       /\ HasJson(runDir, "diagnostics.json") =>
             ReadJson(runDir, "diagnostics.json") = rec.diagnostics
       /\ m.frame_count = 0
       /\ m.frames = <<>>
       /\ m.frames_dropped = TRUE
       /\ m.frames_redacted = FALSE
       /\ m.clip = Null

\* C5 (fail-safe rule): when persist returns, a call whose hook threw and a call
\* whose hook returned only {dropFrames: true} have both written the bundle
\* FailSafeBundle, which is a function of the buffer and the arguments alone:
\* for the same buffer and arguments the two bundles are the same.
C5_FailSafeRule ==
    [][\A c \in Calls :
        (/\ call[c].pc = "commit"
         /\ call'[c].pc = "returned"
         /\ call[c].hook \in {HookThrows, HookResult(Undefined, Undefined, Undefined, TRUE)})
        => FailSafeBundle(c)']_vars

\* A call whose hook threw has returned, with two frames in the buffer and a
\* snapshot and diagnostics handed in.
C5_Witness ==
    \E c \in Calls :
        /\ ReturnedPath(c)
        /\ call[c].hook = HookThrows
        /\ Len(call[c].loop) = 2
        /\ Truthy(call[c].snapshot)
        /\ Truthy(call[c].diagnostics)

\* ------------------------------------------------------------------ C6
\* C6 (redaction precedes frame persistence): with a hook configured, no frame
\* file is in the run directory before the hook has returned or thrown, and
\* afterwards the run directory holds only frames the hook approved (none when
\* it dropped them).
C6_RedactionPrecedesFrames ==
    options.onBeforePersist =>
        /\ (\A c \in Calls : call[c].hookCalls = 0) => outFrames = EmptyFiles
        /\ \A c \in Calls :
              call[c].hookCalls = 1 =>
                FrameFilesIn(RunDirOf(c)) \subseteq
                    (IF call[c].dropFrames THEN {}
                     ELSE {Basename(call[c].framePaths[k]) :
                              k \in 1..Len(call[c].framePaths)})

\* ------------------------------------------------------------------ C7
\* C7 (at-most-once persistence under interleaving), as claimed: however two
\* persist calls on one instance interleave, at most one of them writes a
\* bundle and returns a path.
C7_AtMostOnceUnderInterleaving ==
    \A c, d \in Calls :
        (c # d /\ ReturnedPath(c) /\ HasJson(RunDirOf(c), "manifest.json"))
            => ~(ReturnedPath(d) /\ HasJson(RunDirOf(d), "manifest.json"))

\* C7, amended: a persist call that starts after a call on the same instance
\* has returned a path returns null at once and writes nothing; calls that
\* start before any call has reached its end are not covered (each of them
\* may write a bundle and return a path).
C7_AtMostOnceWhenSerialized ==
    [][\A c \in Calls :
        (/\ call[c].pc = "idle"
         /\ call'[c].pc # "idle"
         /\ \E d \in Calls : ReturnedPath(d))
        => /\ call'[c].pc = "returned"
           /\ call'[c].result = Null
           /\ UNCHANGED diskVars]_vars

\* The second call started after the first had returned a path, and has
\* returned null, with a frame in the bundle.
C7_Witness ==
    /\ ReturnedPath(1)
    /\ ReturnedNull(2)
    /\ FrameFilesIn(RunDirOf(1)) # {}

\* ------------------------------------------------------------------ C8
\* Two characters that are the same letter in either case.
SameLetter(a, b) ==
    \/ a = b
    \/ \E pair \in {<<"A", "a">>, <<"D", "d">>, <<"E", "e">>, <<"I", "i">>,
                    <<"L", "l">>, <<"M", "m">>, <<"O", "o">>, <<"P", "p">>,
                    <<"R", "r">>, <<"S", "s">>, <<"T", "t">>, <<"W", "w">>} :
          <<a, b>> = pair \/ <<b, a>> = pair

EqualIgnoringCase(x, y) ==
    Len(x) = Len(y) /\ \A k \in 1..Len(x) : SameLetter(x[k], y[k])

\* An element the claim asks to be redacted: an object with a value field
\* whose input_type is password, email or tel in any case.
MustBeRedacted(el) ==
    /\ "kind" \notin DOMAIN el
    /\ "value" \in DOMAIN el
    /\ "input_type" \in DOMAIN el
    /\ \E t \in {Password, Email, Tel} : EqualIgnoringCase(el.input_type, t)

\* out is the snapshot in as the claim says it is written.
WrittenAsClaimed(in, out) ==
    /\ DOMAIN out = DOMAIN in
    /\ \A f \in (DOMAIN in) \ {"elements"} : out[f] = in[f]
    /\ out.elements.kind = "array"
    /\ Len(out.elements.items) = Len(in.elements.items)
    /\ \A k \in 1..Len(in.elements.items) :
          LET a == in.elements.items[k]
              b == out.elements.items[k]
          IN IF MustBeRedacted(a)
             THEN /\ DOMAIN b = (DOMAIN a) \cup {"value_redacted"}
                  /\ b.value = Null
                  /\ b.value_redacted = Bool(TRUE)
                  /\ \A f \in (DOMAIN a) \ {"value", "value_redacted"} : b[f] = a[f]
             ELSE b = a

\* C8 (default redaction): with the redaction toggle on, when persist has
\* returned a path for a snapshot with an elements list that no hook replaced,
\* snapshot.json holds the snapshot with exactly the password, email and tel
\* elements (in any case) that have a value set to value = null and
\* value_redacted = true, and everything else, order and count as handed in.
C8_DefaultRedaction ==
    \A c \in Calls :
        (/\ ReturnedPath(c)
         /\ options.redactSnapshotValues
         /\ call[c].snapshot.kind = "object"
         /\ call[c].snapshot.elements.kind = "array"
         /\ call[c].hook.snapshot = Undefined)
        => /\ HasJson(RunDirOf(c), "snapshot.json")
           /\ WrittenAsClaimed(call[c].snapshot, ReadJson(RunDirOf(c), "snapshot.json"))

\* A snapshot with an upper-case PASSWORD element carrying a value and a text
\* element carrying a value has been written, the toggle on and the hook run.
C8_Witness ==
    \E c \in Calls :
        /\ ReturnedPath(c)
        /\ options.redactSnapshotValues
        /\ call[c].hookCalls = 1
        /\ call[c].hook.snapshot = Undefined
        /\ call[c].snapshot.kind = "object"
        /\ call[c].snapshot.elements =
              Arr(<<[id |-> 1, input_type |-> PasswordUpper, value |-> Str("secret")],
                    [id |-> 1, input_type |-> TextType, value |-> Str("secret")]>>)
        /\ HasJson(RunDirOf(c), "snapshot.json")
        /\ ReadJson(RunDirOf(c), "snapshot.json").elements.items[1].value = Null

\* ------------------------------------------------------------------ C9
\* C9 (clip mode off): with clip.mode = 'off' no persist call runs the probe or
\* the encoder, no failure.mp4 exists, and every manifest written (also the
\* one still at its temporary path) has clip = null and clip_fps = null.
C9_ClipModeOff ==
    options.clip.mode = "off" =>
        /\ \A c \in Calls : call[c].probeCalls = 0 /\ call[c].encoderCalls = 0
        /\ outClip = {}
        /\ \A f \in DOMAIN outJson :
              f[2][1] = "manifest.json" =>
                  outJson[f].clip = Null /\ outJson[f].clip_fps = Null

\* Mode 'off', a call has returned a path with two frames copied, frames not
\* dropped and a non-empty frame-path list: the clip would otherwise be tried.
C9_Witness ==
    \E c \in Calls :
        /\ options.clip.mode = "off"
        /\ ReturnedPath(c)
        /\ ~call[c].dropFrames
        /\ Len(call[c].framePaths) > 0
        /\ Cardinality(FrameFilesIn(RunDirOf(c))) = 2
        /\ HasJson(RunDirOf(c), "manifest.json")

\* ------------------------------------------------------------------ C10
\* C10 (clip skipped on drop): once a call's frames are dropped (the hook
\* asked for it or threw), that call runs neither the probe nor the encoder in
\* any clip mode, its run directory gets no failure.mp4, and its manifest has
\* clip = null and frames_dropped = true.
C10_ClipSkippedOnDrop ==
    \A c \in Calls :
        (call[c].hookCalls = 1 /\ call[c].dropFrames) =>
            /\ call[c].probeCalls = 0
            /\ call[c].encoderCalls = 0
            /\ RunDirOf(c) \notin outClip
            /\ HasJson(RunDirOf(c), "manifest.json") =>
                  /\ ReadJson(RunDirOf(c), "manifest.json").clip = Null
                  /\ ReadJson(RunDirOf(c), "manifest.json").frames_dropped = TRUE

\* Mode 'on', the hook returned dropFrames = true for a non-empty frame list,
\* frame files are in the run directory, and the call has returned.
C10_Witness ==
    \E c \in Calls :
        /\ options.clip.mode = "on"
        /\ ReturnedPath(c)
        /\ call[c].hook.kind = "result"
        /\ call[c].dropFrames
        /\ Len(call[c].framePaths) > 0
        /\ ClipFrameFiles(RunDirOf(c)) # {}
\* ------------------------------------------------------------------ C11
\* The base names of the frames that survive redaction in call c: the paths
\* the hook approved (all of the buffer's when there is no hook or the hook
\* names none) that exist.
SurvivingFrames(c) ==
    {Basename(call[c].framePaths[k]) :
        k \in {j \in 1..Len(call[c].framePaths) : ExistsSync(call[c].framePaths[j])}}

\* C11 (clip from the surviving frames only): whenever the encoder has been
\* invoked by a persist call, the set of frame files it was fed is exactly the
\* set of surviving frames, so it holds no frame the hook omitted.
C11_ClipFromSurvivors ==
    \A c \in Calls :
        call[c].encoderCalls = 1 =>
            {call[c].clipInput[k] : k \in 1..Len(call[c].clipInput)} = SurvivingFrames(c)

\* ------------------------------------------------------------------ C12
\* C12 (manifest written last): whenever manifest.json is at its final path in
\* a run directory, steps.json is there and every file the manifest names is
\* there: each frames[].file under frames/, snapshot.json and diagnostics.json
\* when named, failure.mp4 when named.
C12_ManifestWrittenLast ==
    \A runDir \in runDirs :
        HasJson(runDir, "manifest.json") =>
            LET m == ReadJson(runDir, "manifest.json")
            IN /\ HasJson(runDir, "steps.json")
               /\ \A k \in 1..Len(m.frames) : m.frames[k].file \in FrameFilesIn(runDir)
               /\ m.snapshot # Null => HasJson(runDir, "snapshot.json")
               /\ m.diagnostics # Null => HasJson(runDir, "diagnostics.json")
               /\ m.clip # Null => runDir \in outClip

\* ------------------------------------------------------------------ C13
\* C13 (step log completeness and order): no step changes this.steps except by
\* appending one record at its end, so no record is ever removed, by pruning
\* or otherwise; and when persist returns a path, steps.json is in the run
\* directory and holds this.steps, the k-th record being the one of the k-th
\* recordStep call, whether or not there are steps or frames and whether or
\* not the frames were dropped.
C13_StepLogCompleteInOrder ==
    [][/\ Len(steps') >= Len(steps)
       /\ SubSeq(steps', 1, Len(steps)) = steps
       /\ \A c \in Calls :
            (call'[c].pc = "returned" /\ call'[c].result # Null) =>
                LET runDir == RunDirName(call'[c].ts)
                    final == <<runDir, FinalName("steps.json")>>
                IN /\ final \in DOMAIN outJson'
                   /\ outJson'[final] = Arr(steps')
                   /\ \A k \in 1..Len(steps') : steps'[k].step_index = k]_vars

\* Two steps of different actions are in steps.json of a returned call whose
\* hook dropped the frames, the first frame having been submitted between them
\* and evicted since.
C13_Witness ==
    /\ ReturnedPath(1)
    /\ call[1].dropFrames
    /\ Len(submitted) > Len(frames)
    /\ HasJson(RunDirOf(1), "steps.json")
    /\ Len(ReadJson(RunDirOf(1), "steps.json").items) = 2
    /\ ReadJson(RunDirOf(1), "steps.json").items[1].action = "TYPE"
    /\ ReadJson(RunDirOf(1), "steps.json").items[2].action = "CLICK"
    /\ ReadJson(RunDirOf(1), "steps.json").items[1].ts <= submitted[1]
    /\ ReadJson(RunDirOf(1), "steps.json").items[2].ts > submitted[1]

\* ------------------------------------------------------------------ C14
\* The payload of call c that is left after the hook: the hook's replacement
\* where its result has one (null included), otherwise what the caller gave.
PayloadAfterHook(c, field) ==
    IF call[c].hook.kind = "result" /\ call[c].hook[field] # Undefined
    THEN call[c].hook[field] ELSE call[c][field]

\* C14 (snapshot/diagnostics presence): when persist has returned a path,
\* snapshot.json is in the run directory iff a snapshot is present (neither
\* undefined nor null) after default redaction and hook replacement, and
\* diagnostics.json iff diagnostics are present after hook replacement; the
\* manifest's snapshot field is 'snapshot.json' when snapshot.json was written
\* and null otherwise, and likewise its diagnostics field.
C14_PayloadPresence ==
    \A c \in Calls :
        ReturnedPath(c) =>
            LET runDir == RunDirOf(c)
                m == ReadJson(runDir, "manifest.json")
            IN /\ HasJson(runDir, "snapshot.json") <=>
                      Truthy(PayloadAfterHook(c, "snapshot"))
               /\ HasJson(runDir, "diagnostics.json") <=>
                      Truthy(PayloadAfterHook(c, "diagnostics"))
               /\ m.snapshot = (IF HasJson(runDir, "snapshot.json")
                                THEN Str("snapshot.json") ELSE Null)
               /\ m.diagnostics = (IF HasJson(runDir, "diagnostics.json")
                                   THEN Str("diagnostics.json") ELSE Null)

\* The caller handed in a snapshot and diagnostics, the hook replaced the
\* snapshot by null: no snapshot.json, diagnostics.json written, and the
\* manifest says so.
C14_Witness ==
    \E c \in Calls :
        /\ ReturnedPath(c)
        /\ Truthy(call[c].snapshot)
        /\ call[c].hook.kind = "result"
        /\ call[c].hook.snapshot = Null
        /\ ~HasJson(RunDirOf(c), "snapshot.json")
        /\ HasJson(RunDirOf(c), "diagnostics.json")
        /\ ReadJson(RunDirOf(c), "manifest.json").snapshot = Null
        /\ ReadJson(RunDirOf(c), "manifest.json").diagnostics = Str("diagnostics.json")

\* ------------------------------------------------------------------ C15
\* C15 (a hook error never propagates): a persist call whose hook threw (or
\* returned no object, which throws inside the try block) never ends by
\* throwing; when it has ended it has returned the run directory's path,
\* steps.json and manifest.json are in the run directory and the instance is
\* marked persisted.
C15_HookErrorContained ==
    \A c \in Calls :
        call[c].hook.kind \in {"throw", "undefined"} =>
            /\ call[c].pc # "threw"
            /\ call[c].pc = "returned" =>
                  /\ call[c].result = Str(RunDirName(call[c].ts))
                  /\ HasJson(RunDirOf(c), "steps.json")
                  /\ HasJson(RunDirOf(c), "manifest.json")
                  /\ persisted

\* A call whose hook threw has returned, with a frame in the buffer.
C15_Witness ==
    \E c \in Calls :
        /\ call[c].hook = HookThrows
        /\ ReturnedPath(c)
        /\ Len(call[c].loop) > 0
        /\ persisted

\* ------------------------------------------------------------------ C16
\* What the encoder does when it does not produce a clip.
EncoderProblems == {"noOutput", "fail", "partial", "throw"}

\* C16 (encoder problems are soft): in a persist call whose probe found no
\* encoder, or whose encoder ended with a non-zero status, timed out, threw or
\* wrote no file, the clip step changes no frame file and no JSON file and
\* goes on to write a manifest with clip = null and clip_fps = null; the call
\* never ends by throwing, and when it has ended it has returned the run
\* directory's path and that manifest is in place.
C16_EncoderProblemsSoft ==
    [][\A c \in Calls :
        (call'[c].probe = "unavailable" \/ call'[c].encoder \in EncoderProblems) =>
            /\ call'[c].pc # "threw"
            /\ call[c].pc = "clip" =>
                  /\ call'[c].pc = "writeTmp"
                  /\ call'[c].json.file = "manifest.json"
                  /\ call'[c].json.data.clip = Null
                  /\ call'[c].json.data.clip_fps = Null
                  /\ UNCHANGED <<runDirs, outFrames, outJson>>
            /\ call'[c].pc = "returned" =>
                  /\ call'[c].result = Str(RunDirName(call'[c].ts))
                  /\ outJson'[<<RunDirName(call'[c].ts), FinalName("manifest.json")>>]
                        = call'[c].json.data]_vars

\* The encoder ended with a non-zero status leaving an incomplete failure.mp4:
\* the call has returned and the manifest has clip = null.
C16_Witness ==
    /\ ReturnedPath(1)
    /\ call[1].encoder = "partial"
    /\ RunDirOf(1) \in outClip
    /\ Len(call[1].clipInput) = 2
    /\ ReadJson(RunDirOf(1), "manifest.json").clip = Null
    /\ HasJson(RunDirOf(1), "snapshot.json")

\* ------------------------------------------------------------------ C17
\* C17 (addFrame failure is loud and leaves the buffer unchanged): when the
\* scratch write of an addFrame call fails, the call ends rejected, and the
\* frame list (so frameCount()), the step log, the persisted flag and the
\* frames appended so far are what they were: nothing is appended and nothing
\* is pruned, not even a frame that is by then older than the window.
C17_AddFrameFailureLoud ==
    [][(af.pc = "writeFile" /\ af'.pc = "rejected") =>
          /\ frames' = frames
          /\ Len(frames') = Len(frames)
          /\ steps' = steps
          /\ persisted' = persisted
          /\ submitted' = submitted]_vars

\* An addFrame call has been rejected while the buffer held a frame older than
\* the window, which is still there, and a step.
C17_Witness ==
    /\ af.pc = "rejected"
    /\ Len(frames) = 1
    /\ frames[1].ts < now - options.bufferSeconds * MsPerSecond
    /\ Len(steps) = 1

\* ------------------------------------------------------------------ C18
\* C18 (retention window in every state): in every state every frame in the
\* buffer has now - ts <= bufferSeconds * 1000 for the clock's current value,
\* and every frame a persist call has copied into the bundle was within the
\* window at the clock value the call read.
C18_RetentionWindowAlways ==
    /\ \A k \in 1..Len(frames) :
          now - frames[k].ts <= options.bufferSeconds * MsPerSecond
    /\ \A c \in Calls :
          \A k \in 1..Len(call[c].loop) :
              k < call[c].i =>
                  call[c].ts - call[c].loop[k].ts <= options.bufferSeconds * MsPerSecond

\* ------------------------------------------------------------------ C19
\* C19 (frame ordering): in every state the buffer's frames are in
\* non-decreasing order of capture timestamp, whatever the clock returns.
C19_FramesOrdered ==
    \A j, k \in 1..Len(frames) : j < k => frames[j].ts <= frames[k].ts

\* ------------------------------------------------------------------ C20
JsonFiles == {"steps.json", "snapshot.json", "diagnostics.json", "manifest.json"}

\* The data persist hands to writeJsonAtomic for a file of call c, from the
\* call's arguments and locals.
CompleteContent(c, file) ==
    CASE file = "steps.json" -> Arr(steps)
      [] file = "snapshot.json" -> call[c].snapshotPayload
      [] file = "diagnostics.json" -> call[c].diagnosticsPayload
      [] file = "manifest.json" -> Manifest(call[c], call[c].clipGenerated)

\* C20 (per-file atomicity): in every state, which is every point where the
\* process may stop during persist, each of steps.json, snapshot.json,
\* diagnostics.json and manifest.json is either absent from its final path or
\* holds there the complete content persist handed to writeJsonAtomic; content
\* of a write under way is at the '.tmp' path only.
C20_PerFileAtomicity ==
    \A c \in Calls :
        (call[c].pc \notin {"idle", "mkdirOut", "mkdirFrames"} /\ call[c].result # Null) =>
            \A file \in JsonFiles :
                HasJson(RunDirOf(c), file) =>
                    /\ ReadJson(RunDirOf(c), file) # Partial
                    /\ ReadJson(RunDirOf(c), file) = CompleteContent(c, file)

\* The write of manifest.json.tmp is under way, steps.json, snapshot.json and
\* diagnostics.json are in place, manifest.json is not.
C20_Witness ==
    \E c \in Calls :
        /\ call[c].pc = "writeTmp"
        /\ call[c].json.file = "manifest.json"
        /\ <<RunDirOf(c), TmpName("manifest.json")>> \in DOMAIN outJson
        /\ outJson[<<RunDirOf(c), TmpName("manifest.json")>>] = Partial
        /\ HasJson(RunDirOf(c), "steps.json")
        /\ HasJson(RunDirOf(c), "snapshot.json")
        /\ HasJson(RunDirOf(c), "diagnostics.json")
        /\ ~HasJson(RunDirOf(c), "manifest.json")

\* ------------------------------------------------------------------ C21
\* C21 (frame copies are atomic): in every state, which is every point where
\* the process may stop during persist, no file at a final path under
\* <runDir>/frames holds a part of a frame only.
C21_FrameCopiesAtomic ==
    \A dest \in DOMAIN outFrames : outFrames[dest] # Truncated

\* ------------------------------------------------------------------ C22
\* C22 (the hook sees only heuristic-redacted data and runs once): no persist
\* call invokes the hook more than once; a call that was a no-op, or a buffer
\* without a hook, never invokes it; a call that returned a path with a hook
\* configured invoked it exactly once. In the context of that invocation, when
\* the redaction toggle is on and the caller's snapshot has an elements list,
\* the snapshot is the caller's with every password, email and tel value
\* replaced, and framePaths are the scratch paths of the retained frames, one
\* per frame, in buffer order.
C22_HookSeesRedactedOnce ==
    \A c \in Calls :
        /\ call[c].hookCalls <= 1
        /\ ReturnedNull(c) => call[c].hookCalls = 0
        /\ ~options.onBeforePersist => call[c].hookCalls = 0
        /\ (ReturnedPath(c) /\ options.onBeforePersist) => call[c].hookCalls = 1
        /\ call[c].hookCalls = 1 =>
              /\ (/\ options.redactSnapshotValues
                  /\ call[c].snapshot.kind = "object"
                  /\ call[c].snapshot.elements.kind = "array")
                 => WrittenAsClaimed(call[c].snapshot, call[c].ctx.snapshot)
              /\ Len(call[c].ctx.framePaths) = Len(frames)
              /\ \A k \in 1..Len(frames) :
                    /\ call[c].ctx.framePaths[k] = frames[k].filePath
                    /\ frames[k].filePath = PathJoin(FramesDir, frames[k].fileName)

\* The hook has been handed a login snapshot with an upper-case PASSWORD value
\* and the paths of two retained frames, the toggle on, and persist returned.
C22_Witness ==
    \E c \in Calls :
        /\ ReturnedPath(c)
        /\ options.redactSnapshotValues
        /\ call[c].hookCalls = 1
        /\ call[c].snapshot = LoginSnapshot
        /\ Len(call[c].ctx.framePaths) = 2

\* ------------------------------------------------------------------ C23
\* C23 (the hook's result is any subset): once the hook has returned a result
\* object, each of the snapshot, the diagnostics and the frame-path list that
\* persist goes on with is the value the hook returned for it, or, where the
\* result has none, what the hook was handed; after an empty result {} all
\* three are what the hook was handed and the frames are not dropped.
C23_HookResultAnySubset ==
    \A c \in Calls :
        (call[c].hookCalls = 1 /\ call[c].hook.kind = "result") =>
            LET rec == call[c]
                result == rec.hook
            IN /\ rec.snapshotPayload =
                     IF result.snapshot = Undefined THEN rec.ctx.snapshot
                     ELSE result.snapshot
               /\ rec.diagnosticsPayload =
                     IF result.diagnostics = Undefined THEN rec.ctx.diagnostics
                     ELSE result.diagnostics
               /\ rec.framePaths =
                     IF result.framePaths = Undefined THEN rec.ctx.framePaths
                     ELSE result.framePaths.items
               /\ (/\ result.snapshot = Undefined
                   /\ result.diagnostics = Undefined
                   /\ result.framePaths = Undefined
                   /\ ~result.dropFrames)
                  => /\ ~rec.dropFrames
                     /\ rec.snapshotPayload = rec.ctx.snapshot
                     /\ rec.diagnosticsPayload = rec.ctx.diagnostics
                     /\ rec.framePaths = rec.ctx.framePaths

\* Persist returned a path after a hook that returned {} for a login snapshot,
\* caller diagnostics and one retained frame or more, and the frames were
\* copied.
C23_Witness ==
    \E c \in Calls :
        /\ ReturnedPath(c)
        /\ call[c].hookCalls = 1
        /\ call[c].ctx.framePaths # <<>>
        /\ call[c].hook = HookResult(Undefined, Undefined, Undefined, FALSE)
        /\ call[c].snapshot = LoginSnapshot
        /\ call[c].diagnostics = CallerDiagnostics
        /\ FrameFilesIn(RunDirOf(c)) # {}

\* ------------------------------------------------------------------ C24
\* C24 (per-frame metadata of the manifest): whenever persist has returned a
\* path, with no hook configured or after a hook that returned no frame-path
\* list and did not drop the frames, frames[] of the manifest has one entry
\* per retained frame, in buffer order, holding that frame's file name and
\* its capture timestamp.
C24_ManifestFrameMetadata ==
    \A c \in Calls :
        (/\ ReturnedPath(c)
         /\ \/ ~options.onBeforePersist
            \/ /\ call[c].hook.kind = "result"
               /\ call[c].hook.framePaths = Undefined
               /\ ~call[c].hook.dropFrames)
        => LET manifest == ReadJson(RunDirOf(c), "manifest.json")
           IN /\ Len(manifest.frames) = Len(frames)
              /\ \A k \in 1..Len(frames) :
                    /\ DOMAIN manifest.frames[k] = {"file", "ts"}
                    /\ manifest.frames[k].file = frames[k].fileName
                    /\ manifest.frames[k].ts = Num(frames[k].ts)


\* ------------------------------------------------------------------ C25
\* C25 (audit flags): whenever persist has returned a path, frames_redacted of
\* the manifest is true exactly when the hook ran, the frames were not dropped
\* and the frame-path list persisted differs from the one the hook was handed;
\* frames_dropped is true exactly when the frames were dropped; the two flags
\* are never both true; frames_redacted is false without a hook.
C25_AuditFlags ==
    \A c \in Calls :
        ReturnedPath(c) =>
            LET rec == call[c]
                manifest == ReadJson(RunDirOf(c), "manifest.json")
                changed == /\ rec.hookCalls = 1
                           /\ ~rec.dropFrames
                           /\ rec.framePaths # rec.ctx.framePaths
            IN /\ manifest.frames_redacted <=> changed
               /\ manifest.frames_dropped <=> rec.dropFrames
               /\ ~(manifest.frames_redacted /\ manifest.frames_dropped)
               /\ ~options.onBeforePersist => ~manifest.frames_redacted


\* ------------------------------------------------------------------ C26
\* The file names of the frames retained in the buffer, sorted as
\* generateClipFromFrames sorts the names it reads.
RetainedNamesSorted == SortNames({frames[k].fileName : k \in 1..Len(frames)})

\* C26 (file-name order is time order): in every state of the buffer, in the
\* sorted list of the retained frames' file names a name that comes earlier
\* belongs to a frame captured no later than the frame of a name that comes
\* after it, whatever the digits of the timestamps and the formats.
C26_NameOrderIsTimeOrder ==
    \A i, j \in 1..Len(RetainedNamesSorted) :
        i < j =>
            \A a, b \in 1..Len(frames) :
                (/\ frames[a].fileName = RetainedNamesSorted[i]
                 /\ frames[b].fileName = RetainedNamesSorted[j])
                => frames[a].ts <= frames[b].ts


\* ------------------------------------------------------------------ C27
\* The run id names one entry of the output directory as it is written: it has
\* no "." segment that path.join would drop.
PlainRunId(runId) == PathNormalize(PathSegments(runId)) = <<runId>>

\* C27 as stated (run directories do not collide): whenever persist has
\* returned a path, the manifest in its run directory carries the run id and
\* the persist timestamp of the buffer that returned it: no instance with
\* another (run id, timestamp) pair has written over it.
C27_RunDirsDoNotCollide ==
    \A c \in Calls :
        ReturnedPath(c) =>
            LET manifest == ReadJson(RunDirOf(c), "manifest.json")
            IN /\ manifest.run_id = RunId
               /\ manifest.created_at_ms = call[c].ts

\* C27 as amended: every manifest under the output directory that was written
\* by an instance whose run id is a plain directory name lies in the run
\* directory named by its own run id and timestamp, so that two such
\* instances with different pairs never write the same file; and the manifest
\* in the run directory of a returned call carries that call's pair unless an
\* instance whose run id is not a plain name wrote it.
C27_PlainRunIdsDoNotCollide ==
    /\ \A key \in DOMAIN outJson :
          (/\ key[2] = FinalName("manifest.json")
           /\ outJson[key] # Partial
           /\ PlainRunId(outJson[key].run_id))
          => key[1] = <<outJson[key].run_id, "-">> \o Digits(outJson[key].created_at_ms)
    /\ \A c \in Calls :
          ReturnedPath(c) =>
              LET manifest == ReadJson(RunDirOf(c), "manifest.json")
              IN PlainRunId(manifest.run_id)
                 => /\ manifest.run_id = RunId
                    /\ manifest.created_at_ms = call[c].ts

\* Persist has returned a path at clock 500, and instances with the same run
\* id at clock 0, with another run id at clock 500, have persisted: three run
\* directories, the call's manifest in its own.
C27_Witness ==
    \E c \in Calls :
        /\ ReturnedPath(c)
        /\ call[c].ts = 500
        /\ HasJson(RunDirNameOf(RunId, 0), "manifest.json")
        /\ HasJson(RunDirNameOf(OtherRunId, 500), "manifest.json")
        /\ ReadJson(RunDirOf(c), "manifest.json").run_id = RunId
        /\ ReadJson(RunDirNameOf(OtherRunId, 500), "manifest.json").run_id = OtherRunId
        /\ RunDirOf(c) # RunDirNameOf(OtherRunId, 500)
        /\ RunDirOf(c) # RunDirNameOf(RunId, 0)


\* ------------------------------------------------------------------ C28
\* C28 (cleanup is always safe to call): no cleanup call is rejected, in
\* whatever state of the buffer it is made and however many were made before;
\* and once cleanup has been called the scratch directory does not exist and
\* no scratch frame file is left, whatever the caller does afterwards.
C28_CleanupAlwaysSafe ==
    /\ ~tempDir.rejected
    /\ tempDir.cleanups > 0 => (~tempDir.exists /\ DOMAIN scratch = {})

\* cleanup has been called twice, the second time after a frame was added and
\* a persist call made after the first cleanup failed on the missing scratch
\* file.
C28_Witness ==
    /\ tempDir.cleanups = 2
    /\ frames # <<>>
    /\ \E c \in Calls : call[c].pc = "threw"
    /\ ~persisted


ReportsAsClaimed(in) ==
    LET has(f) == f \in DOMAIN in
        clipHas(f) == has("clip") /\ f \in DOMAIN in.clip
    IN /\ options.bufferSeconds = IF has("bufferSeconds") THEN in.bufferSeconds.v ELSE 15
       /\ options.captureOnAction =
             IF has("captureOnAction") THEN in.captureOnAction.v ELSE TRUE
       /\ options.fps = IF has("fps") THEN in.fps.v ELSE 0
       /\ options.persistMode = IF has("persistMode") THEN in.persistMode.v ELSE "onFail"
       /\ options.outputDir =
             IF has("outputDir") THEN in.outputDir.v ELSE ".sentience/artifacts"
       /\ options.onBeforePersist = (has("onBeforePersist") /\ in.onBeforePersist = Hook)
       /\ options.redactSnapshotValues =
             IF has("redactSnapshotValues") THEN in.redactSnapshotValues.v ELSE TRUE
       /\ options.clip.mode = IF clipHas("mode") THEN in.clip.mode.v ELSE "auto"
       /\ options.clip.fps = IF clipHas("fps") THEN in.clip.fps.v ELSE 8
       /\ options.clip.seconds = IF clipHas("seconds") THEN in.clip.seconds ELSE Undefined

\* C30 (defaults): in every state, for every options argument the buffer may
\* have been constructed with, the options it reports are the supplied values
\* unchanged and the defaults (bufferSeconds 15, captureOnAction true,
\* persistMode 'onFail', redaction on, no hook, clip mode 'auto', clip fps 8,
\* clip seconds undefined) for what was left out, each sub-option of clip on
\* its own.
C30_Defaults ==
    \A in \in CallerOptionChoices :
        options = Construct(in) => ReportsAsClaimed(in)

\* A buffer constructed with clip: {fps: 15} and nothing else has recorded a
\* frame: it reports clip fps 15 with mode 'auto' and seconds undefined, and
\* the defaults of the other options.
C30_Witness ==
    /\ options = Construct([kind |-> "object",
                            clip |-> [kind |-> "object", fps |-> Num(15)]])
    /\ options.clip = [mode |-> "auto", fps |-> 15, seconds |-> Undefined]
    /\ options.bufferSeconds = 15
    /\ options.captureOnAction
    /\ options.persistMode = "onFail"
    /\ options.redactSnapshotValues
    /\ ~options.onBeforePersist
    /\ frames # <<>>

\* ------------------------------------------------------------------ C31
\* The clip block of call c is behind it: the manifest has been built.
ClipStepDone(c) == call[c].json.file = "manifest.json"

\* What lines 479-481 ask for before the probe: frames not dropped, a frame
\* path left, and a clip mode other than 'off'.
ClipWanted(c) ==
    /\ ~call[c].dropFrames
    /\ Len(call[c].framePaths) > 0
    /\ options.clip.mode \in {"auto", "on"}

\* C31 as stated (encoder attempt rule): once the clip block of a persist call
\* is done, the encoder was invoked (once) iff frames were not dropped, the
\* surviving frame-path list is non-empty, the mode is 'auto' or 'on' and the
\* probe succeeded; the probe ran (once) iff the first three hold; a warning
\* about the missing encoder was emitted iff the probe failed in mode 'on'.
C31_EncoderAttemptRule ==
    \A c \in Calls :
        ClipStepDone(c) =>
            /\ call[c].encoderCalls =
                   (IF ClipWanted(c) /\ call[c].probe = "available" THEN 1 ELSE 0)
            /\ call[c].probeCalls = (IF ClipWanted(c) THEN 1 ELSE 0)
            /\ "ffmpegNotFound" \in call[c].warnings
                   <=> (call[c].probe = "unavailable" /\ options.clip.mode = "on")

\* C31 amended: the rule holds for the call of the clip generator
\* (generateClipFromFrames); the encoder itself is invoked iff, in addition,
\* the run directory's frames directory holds at least one frame file, and
\* where it does not the generator warns and reports no clip.
C31_GeneratorAttemptRule ==
    \A c \in Calls :
        ClipStepDone(c) =>
            /\ call[c].generateCalls =
                   (IF ClipWanted(c) /\ call[c].probe = "available" THEN 1 ELSE 0)
            /\ call[c].encoderCalls =
                   (IF call[c].generateCalls = 1
                       /\ ClipFrameFiles(RunDirName(call[c].ts)) # {}
                    THEN 1 ELSE 0)
            /\ call[c].probeCalls = (IF ClipWanted(c) THEN 1 ELSE 0)
            /\ "ffmpegNotFound" \in call[c].warnings
                   <=> (call[c].probe = "unavailable" /\ options.clip.mode = "on")
            /\ "noFrameFiles" \in call[c].warnings
                   <=> (call[c].generateCalls = 1 /\ call[c].encoderCalls = 0)

\* Nothing was buffered and the hook named one frame that does not exist: in
\* mode 'on' the probe found the encoder and the generator was called, but the
\* encoder was not invoked, and the call returned a bundle without clip.
C31_Witness ==
    /\ ReturnedPath(1)
    /\ options.clip.mode = "on"
    /\ ClipWanted(1)
    /\ call[1].probe = "available"
    /\ call[1].generateCalls = 1
    /\ call[1].encoderCalls = 0
    /\ ReadJson(RunDirOf(1), "manifest.json").clip = Null

\* ------------------------------------------------------------------ C32
\* C32 (clip fields are consistent): in every manifest, at its temporary or
\* final path, clip is 'failure.mp4' iff the encoder ran, ended with status 0
\* and failure.mp4 exists in the run directory; clip_fps is non-null iff clip
\* is, and is then the configured clip fps.
C32_ClipFieldsConsistent ==
    \A f \in DOMAIN outJson :
        f[2][1] = "manifest.json" =>
            /\ outJson[f].clip \in {Null, Str("failure.mp4")}
            /\ outJson[f].clip = Str("failure.mp4")
                   <=> /\ call[1].encoderCalls = 1
                       /\ EncoderStatusZero(call[1].encoder)
                       /\ f[1] \in outClip
            /\ outJson[f].clip_fps = Null <=> outJson[f].clip = Null
            /\ outJson[f].clip # Null =>
                   outJson[f].clip_fps = Num(options.clip.fps)

\* A call has returned a bundle whose clip was made of two frames at the
\* configured 12 frames per second.
C32_Witness ==
    /\ ReturnedPath(1)
    /\ options.clip.fps = 12
    /\ call[1].encoder = "ok"
    /\ Len(call[1].clipInput) = 2
    /\ RunDirOf(1) \in outClip
    /\ ReadJson(RunDirOf(1), "manifest.json").clip = Str("failure.mp4")
    /\ ReadJson(RunDirOf(1), "manifest.json").clip_fps = Num(12)

\* ------------------------------------------------------------------ C33
\* C33 (redaction toggle off): with redactSnapshotValues = false, when persist
\* returns a path, the snapshot the hook was handed is the caller's snapshot
\* as it came in, and unless the hook's result replaces it snapshot.json holds
\* that snapshot, password, email and tel values included. The rest is as
\* with the toggle on: the hook has run exactly once where one is configured,
\* frames are dropped iff the hook threw, returned nothing or asked for it, the
\* manifest says so, and a hook that threw or returned only {dropFrames: true}
\* leaves the fail-safe bundle.
C33_ToggleOff ==
    [][\A c \in Calls :
        (/\ ~options.redactSnapshotValues
         /\ call[c].pc = "commit"
         /\ call'[c].pc = "returned")
        => LET rec == call'[c]
               runDir == RunDirName(rec.ts)
           IN /\ rec.hookCalls = (IF options.onBeforePersist THEN 1 ELSE 0)
              /\ rec.hookCalls = 1 => rec.ctx.snapshot = rec.snapshot
              /\ (rec.hook.snapshot = Undefined /\ Truthy(rec.snapshot)) =>
                    /\ <<runDir, FinalName("snapshot.json")>> \in DOMAIN outJson'
                    /\ outJson'[<<runDir, FinalName("snapshot.json")>>] = rec.snapshot
              /\ rec.dropFrames <=>
                    \/ rec.hook.kind \in {"throw", "undefined"}
                    \/ rec.hook.kind = "result" /\ rec.hook.dropFrames
              /\ outJson'[<<runDir, FinalName("manifest.json")>>].frames_dropped
                    = rec.dropFrames
              /\ rec.hook \in {HookThrows,
                               HookResult(Undefined, Undefined, Undefined, TRUE)}
                    => FailSafeBundle(c)']_vars

\* The toggle off, a hook that returned a result replacing nothing, two frames
\* retained: the login snapshot was handed to the hook and written with the
\* password value in it.
C33_Witness ==
    \E c \in Calls :
        /\ ReturnedPath(c)
        /\ ~options.redactSnapshotValues
        /\ call[c].hookCalls = 1
        /\ call[c].hook = HookResult(Undefined, Undefined, Undefined, FALSE)
        /\ Len(call[c].loop) = 2
        /\ call[c].ctx.snapshot = LoginSnapshot
        /\ ReadJson(RunDirOf(c), "snapshot.json").elements.items[1].value = Str("secret")

\* ------------------------------------------------------------------ C34
\* C34 (persisted means committed): the persisted flag is never reset; it
\* becomes true only in the step in which a persist call returns its path,
\* with steps.json in place and manifest.json renamed into place holding the
\* manifest the call built; a persist call that throws leaves the flag false;
\* and a call made while the flag is false, also after an earlier call threw,
\* is not a no-op: it starts the sequence at its first step, having run no
\* hook and written nothing yet.
C34_PersistedMeansCommitted ==
    [][/\ persisted => persisted'
       /\ (~persisted /\ persisted') =>
             \E c \in Calls :
                 LET runDir == RunDirName(call[c].ts)
                 IN /\ call[c].pc = "commit"
                    /\ call'[c].pc = "returned"
                    /\ call'[c].result = Str(runDir)
                    /\ <<runDir, FinalName("steps.json")>> \in DOMAIN outJson
                    /\ <<runDir, FinalName("manifest.json")>> \in DOMAIN outJson
                    /\ <<runDir, TmpName("manifest.json")>> \notin DOMAIN outJson
                    /\ outJson[<<runDir, FinalName("manifest.json")>>]
                          = call[c].json.data
       /\ \A c \in Calls :
             /\ (call[c].pc # "threw" /\ call'[c].pc = "threw") =>
                    ~persisted /\ ~persisted'
             /\ (call[c].pc = "idle" /\ call'[c].pc # "idle" /\ ~persisted) =>
                    /\ call'[c].pc = "mkdirOut"
                    /\ call'[c].hookCalls = 0
                    /\ call'[c].loop = <<>>
             /\ (call[c].pc = "idle" /\ call'[c].pc # "idle" /\ persisted) =>
                    call'[c].pc = "returned" /\ call'[c].result = Null]_vars

\* The first call threw on a write that failed after steps.json was in place;
\* the second call ran the whole sequence and returned its path, and the flag
\* is true.
C34_Witness ==
    /\ call[1].pc = "threw"
    /\ call[1].json.file = "snapshot.json"
    /\ HasJson(RunDirOf(1), "steps.json")
    /\ ReturnedPath(2)
    /\ call[2].hookCalls = 1
    /\ HasJson(RunDirOf(2), "manifest.json")
    /\ persisted

\* ------------------------------------------------------------------ C35
\* The bytes submitted with the k-th retained frame. Under a clock that does
\* not go back the retained frames are the frames submitted last, and the
\* bytes of the n-th frame submitted are written n.
SubmittedImage(k) == Len(submitted) - Len(frames) + k

\* C35 (each retained frame has its own scratch file): in every state the
\* retained FrameRecords have pairwise distinct scratch paths, and each path
\* holds the bytes submitted with its frame, also when two addFrame calls read
\* the same clock value and have the same format.
C35_OwnScratchFile ==
    /\ \A j, k \in 1..Len(frames) :
          j # k => frames[j].filePath # frames[k].filePath
    /\ \A k \in 1..Len(frames) :
          /\ frames[k].ts = submitted[SubmittedImage(k)]
          /\ frames[k].filePath.name \in DOMAIN scratch
          /\ scratch[frames[k].filePath.name] = SubmittedImage(k)

\* ------------------------------------------------------------------ C36
\* The file names of the records fs.
FrameNames(fs) == {fs[k].fileName : k \in 1..Len(fs)}


\* C36 (scratch storage mirrors the buffer): an addFrame call whose write
\* completed ends normally with its frame counted, whether or not a deletion
\* failed; when it ends no frame older than the cutoff is in the buffer and
\* the file of every retained frame is in the scratch directory; and if the
\* scratch files were the files of the retained frames before the call and
\* every deletion of the call succeeded (no file of an evicted frame is
\* left), the scratch files are again exactly the files of the retained
\* frames.
C36_ScratchMirrorsBuffer ==
    [][(af.pc = "writeFile" /\ af'.pc # "writeFile") =>
          LET pushed == Append(frames, [ts |-> af.ts, fileName |-> af.fileName,
                                        filePath |-> af.filePath])
              cutoff == now - options.bufferSeconds * MsPerSecond
              evicted == {pushed[k].fileName :
                            k \in {j \in 1..Len(pushed) : pushed[j].ts < cutoff}}
          IN /\ af'.pc = "idle"
             /\ Len(submitted') = Len(submitted) + 1
             /\ \A k \in 1..Len(frames') : frames'[k].ts >= cutoff
             /\ FrameNames(frames') = FrameNames(pushed) \ evicted
             /\ FrameNames(frames') \subseteq DOMAIN scratch'
             /\ (DOMAIN scratch = FrameNames(frames) /\ evicted \cap DOMAIN scratch' = {})
                   => DOMAIN scratch' = FrameNames(frames')]_vars

\* Three addFrame calls have ended: the second evicted the first frame and its
\* deletion failed, so that frame's file is still in the scratch directory and
\* its record is gone; the deletions of the third call succeeded.
C36_Witness ==
    /\ af.pc = "idle"
    /\ Len(submitted) = 3
    /\ Len(frames) = 1
    /\ Cardinality(DOMAIN scratch) = 2
    /\ FrameNames(frames) \subseteq DOMAIN scratch
    /\ FrameFileName(submitted[1], "png") \in DOMAIN scratch \ FrameNames(frames)
    /\ FrameFileName(submitted[2], "png") \notin DOMAIN scratch

\* ------------------------------------------------------------------ C37
\* C37 (persist and recordStep leave the frame buffer untouched; cleanup leaves
\* the run directories untouched): no step of a persist call, whether it goes
\* on, returns or throws, and no recordStep call changes the retained frames
\* (so frameCount()) or a scratch file; and no cleanup call changes a run
\* directory, a frame file or JSON file in it, or a clip.
C37_BufferAndBundlesUntouched ==
    [][/\ (call' # call \/ steps' # steps) =>
             /\ frames' = frames
             /\ scratch' = scratch
       /\ tempDir'.cleanups # tempDir.cleanups =>
             /\ runDirs' = runDirs
             /\ outFrames' = outFrames
             /\ outJson' = outJson
             /\ outClip' = outClip]_vars

\* A step was recorded, two frames were retained, persist returned a bundle
\* with both frames, and cleanup has run since: the bundle is in place.
C37_Witness ==
    /\ ReturnedPath(1)
    /\ Len(steps) = 1
    /\ Len(frames) = 2
    /\ tempDir.cleanups = 1
    /\ ~tempDir.exists
    /\ Cardinality(FrameFilesIn(RunDirOf(1))) = 2
    /\ HasJson(RunDirOf(1), "manifest.json")

\* ------------------------------------------------------------------ C38
\* C38 (a hook that returns no result object drops the frames): when persist
\* returns after a hook that returned undefined or null, the hook was called
\* once, the call's frames are dropped, neither the probe nor the encoder ran
\* although a clip was asked for, the manifest has frames_dropped = true and
\* frame_count = 0, and snapshot.json and diagnostics.json hold the payloads
\* from before the hook (the snapshot after the default heuristic when the
\* toggle is on): the bundle is the fail-safe bundle of a hook that threw.
C38_NoResultIsDrop ==
    [][\A c \in Calls :
        (/\ call[c].pc = "commit"
         /\ call'[c].pc = "returned"
         /\ call[c].hook \in {HookReturnsUndefined, HookReturnsNull})
        => /\ call'[c].hookCalls = 1
           /\ call'[c].dropFrames
           /\ call'[c].framePaths = FramePathsOf(call'[c].loop)
           /\ call'[c].probeCalls = 0
           /\ call'[c].encoderCalls = 0
           /\ call'[c].snapshotPayload =
                 (IF options.redactSnapshotValues /\ Truthy(call'[c].snapshot)
                  THEN RedactSnapshotDefaults(call'[c].snapshot)
                  ELSE call'[c].snapshot)
           /\ call'[c].diagnosticsPayload = call'[c].diagnostics
           /\ FailSafeBundle(c)']_vars

\* A hook returned null for a login snapshot, diagnostics and two frames, the
\* toggle on: persist returned, snapshot.json has the password value replaced.
C38_Witness ==
    /\ ReturnedPath(1)
    /\ call[1].hook = HookReturnsNull
    /\ options.redactSnapshotValues
    /\ Len(call[1].loop) = 2
    /\ HasJson(RunDirOf(1), "snapshot.json")
    /\ HasJson(RunDirOf(1), "diagnostics.json")
    /\ ReadJson(RunDirOf(1), "manifest.json").frames_dropped
    /\ ReadJson(RunDirOf(1), "snapshot.json").elements.items[1].value = Null
    /\ ReadJson(RunDirOf(1), "diagnostics.json") = CallerDiagnostics

\* ------------------------------------------------------------------ C39
\* What C39 says of addFrame: after cleanup the call ends rejected and leaves
\* the retained frames as they were.
AddFrameAfterCleanupRejects ==
    (~tempDir.exists /\ af.pc = "writeFile" /\ af'.pc # "writeFile") =>
        /\ af'.pc = "rejected"
        /\ frames' = frames
        /\ submitted' = submitted

\* What C39 says of the end of a persist call made after cleanup on a buffer
\* with retained frames: it threw, the instance is not persisted, and no
\* manifest.json, temporary or final, is in its run directory.
PersistAfterCleanupThrows(c) ==
    (/\ ~tempDir.exists
     /\ call[c].loop # <<>>
     /\ Active(c)
     /\ call'[c].pc \in {"returned", "threw"})
    => /\ call'[c].pc = "threw"
       /\ ~persisted'
       /\ <<RunDirName(call'[c].ts), FinalName("manifest.json")>> \notin DOMAIN outJson'
       /\ <<RunDirName(call'[c].ts), TmpName("manifest.json")>> \notin DOMAIN outJson'

\* C39 as stated (use after cleanup): once cleanup has run, an addFrame call
\* rejects and leaves frameCount() unchanged, and every persist call on a
\* buffer that lists retained frames goes on to throw (it does not return at
\* once), with the instance not marked persisted and no manifest.json written.
C39_UseAfterCleanup ==
    [][/\ AddFrameAfterCleanupRejects
       /\ \A c \in Calls :
             /\ (~tempDir.exists /\ frames # <<>>
                 /\ call[c].pc = "idle" /\ call'[c].pc # "idle")
                => call'[c].pc = "mkdirOut"
             /\ PersistAfterCleanupThrows(c)]_vars

\* C39 amended: the same, for a persist call on an instance that is not yet
\* persisted; on a persisted instance the call returns null at once, as every
\* persist call after the first successful one does.
C39_UseAfterCleanupUnpersisted ==
    [][/\ AddFrameAfterCleanupRejects
       /\ \A c \in Calls :
             /\ (~tempDir.exists /\ frames # <<>>
                 /\ call[c].pc = "idle" /\ call'[c].pc # "idle")
                => IF persisted
                   THEN call'[c].pc = "returned" /\ call'[c].result = Null
                   ELSE call'[c].pc = "mkdirOut"
             /\ PersistAfterCleanupThrows(c)]_vars

\* After cleanup an addFrame call was rejected and a persist call on the
\* retained frame threw: the instance is not persisted, there is no manifest.
C39_Witness ==
    /\ tempDir.cleanups = 1
    /\ af.pc = "rejected"
    /\ Len(frames) = 1
    /\ call[1].pc = "threw"
    /\ Len(call[1].loop) = 1
    /\ ~persisted
    /\ ~HasJson(RunDirOf(1), "manifest.json")
    /\ ~HasJson(RunDirOf(1), "steps.json")

\* ------------------------------------------------------------------ C40
\* C40 (the default heuristic is pure and idempotent): a call of
\* redactSnapshotDefaults changes no object that exists when it is made, so
\* the payload it is given, its elements array and its element objects read
\* the same afterwards; what it returns reads as the payload with every
\* password, email and tel value replaced; applied to its own result it
\* returns a value equal to that result; a payload that is no object or has
\* no elements array is returned as it is, the same reference, with no object
\* made; and any other payload is returned as a new object with a new
\* elements array.
C40_RedactionPureIdempotent ==
    [][redaction' # redaction =>
          LET n == Len(redaction.results)
              cells == redaction.cells
              after == redaction'.cells
              given == IF n = 0 THEN redaction.payload ELSE redaction.results[n]
              result == redaction'.results[n + 1]
          IN /\ redaction'.payload = redaction.payload
             /\ Len(after) >= Len(cells)
             /\ \A i \in 1..Len(cells) : after[i] = cells[i]
             /\ Deref(after, given) = Deref(cells, given)
             /\ Deref(after, result) = RedactSnapshotDefaults(Deref(cells, given))
             /\ n >= 1 => Deref(after, result) = Deref(cells, given)
             /\ IF given.kind # "ref" THEN result = given /\ after = cells
                ELSE IF Deref(cells, given).elements.kind # "array"
                THEN result = given /\ after = cells
                ELSE /\ result.kind = "ref"
                     /\ result.at > Len(cells)
                     /\ after[result.at].elements.at > Len(cells)]_vars

\* The function was applied twice to a snapshot with a PASSWORD element and a
\* text element, both with a value: the snapshot given still reads as it was,
\* the first result has the password value replaced and the text value kept,
\* and the second result is another object that reads as the first.
C40_Witness ==
    /\ Len(redaction.results) = 2
    /\ redaction.payload = Ref(1)
    /\ Deref(redaction.cells, redaction.payload).elements =
          Arr(<<[id |-> 1, input_type |-> PasswordUpper, value |-> Str("secret")],
                [id |-> 1, input_type |-> TextType, value |-> Str("secret")]>>)
    /\ Deref(redaction.cells, redaction.results[1]).elements =
          Arr(<<[id |-> 1, input_type |-> PasswordUpper, value |-> Null,
                 value_redacted |-> Bool(TRUE)],
                [id |-> 1, input_type |-> TextType, value |-> Str("secret")]>>)
    /\ redaction.results[2] # redaction.results[1]
    /\ Deref(redaction.cells, redaction.results[2])
          = Deref(redaction.cells, redaction.results[1])

=============================================================================
